---- MODULE Spec2Model ----
(***************************************************************************)
(* Model of the cached ingestion pipeline of dev-charts                    *)
(* (src/unnamed/part_000): the on-disk response cache, the cache key, the  *)
(* rate-limited request client cachedRequest with its retry/backoff, the   *)
(* commits fetcher that calls the client, the batch scheduler              *)
(* processInBatches, the PR paginator fetchAllPullRequests, main in a      *)
(* forced-cache run, the list paginators (with the reviews paginator of    *)
(* src/tasks/build_json.ts, which has no try around its page request),     *)
(* processPR (also over fetchers whose requests fail) and its two reviews  *)
(* fetches, the comment reconciliation fetchPullRequestComments, the       *)
(* snapshot with its summary counters, and the startup checks of main.     *)
(*                                                                         *)
(* Asynchronous functions are cut at their awaits: every action is one     *)
(* synchronous segment of the code, run to its next await, return or throw.*)
(***************************************************************************)
EXTENDS Integers, Sequences, FiniteSets, TLC

VARIABLES
    forceCache,     \* main: args.includes('--force-cache'), passed to every call
    now,            \* Date.now(), in whole days
    cache,          \* CACHE_DIR: cache key -> file
    calls,          \* the cachedRequest invocations, one record per call chain
    liveRequests,   \* number of octokit.request calls issued so far
    fc,             \* fetchPullRequestCommits: its locals and position
    kreq,           \* cache-key study: the two requests hashed
    kkey,           \* cache-key study: their keys, once computed
    pb,             \* processInBatches: its arguments, locals, position and workers
    pl,             \* fetchAllPullRequests: its arguments, locals and position
    run,            \* main: its locals, position and exit code
    pg,             \* a list paginator: its locals, position and requests
    ppr,            \* processPR: its locals, position and four sub-pipelines
    cmt,            \* fetchPullRequestComments: its locals and position
    snap,           \* main from the data object on: the snapshot and its summary
    boot,           \* main's startup: the arguments, the environment, the outcome
    rv              \* the two fetchPullRequestReviews calls of one processPR

vars ==
    <<forceCache, now, cache, calls, liveRequests, fc, kreq, kkey, pb, pl, run,
      pg, ppr, cmt, snap, boot, rv>>

---------------------------------------------------------------------------
(* Bounds of the model *)

NCalls == 2         \* concurrent cachedRequest call chains
MaxTime == 4        \* days the clock can advance
MaxPage == 2        \* largest page number / numeric parameter value
MaxCommitPages == 1 \* pages of commits the API holds for the PR
MaxItems == 4       \* longest list given to processInBatches
MaxBatchSize == 3   \* largest batchSize given to processInBatches
MaxPulls == 4       \* pull requests the API holds for the repository
MaxDate == 3        \* latest creation date (a day number, from 1)
PullsPerPage == 2   \* items on a full page of pull requests (it scales per_page)
MaxRunPages == 2    \* pages a paginator of a whole run can ask for
MaxRows == 3        \* items the API lists for a paginated resource
RowsPerPage == 2    \* items on a full page of a paginated resource (it scales per_page)
MaxComments == 2    \* line comments, and issue comments, the API lists for a PR
MaxReviews == 2     \* reviews the API lists for a PR
MaxSnapshotPRs == 2 \* PRs in the window of the first repository of a snapshot
MaxFailPage == 2    \* pages of a fetcher of processPR whose request can fail

(* Program constants *)

MaxRetries == 3
RateLimitBaseWait == 30000
QuotaBaseWait == 60000
RateLimitStatus == 403
PullsTtlDays == 3
CommitsTtlDays == 7
ReposTtlDays == 7
DetailsTtlDays == 7
ReviewsTtlDays == 7
PerPage == 100
BatchSize == 5

---------------------------------------------------------------------------
(* JSON values and JSON.stringify *)

Num(n) == [t |-> "number", n |-> n, s |-> ""]
Str(s) == [t |-> "string", n |-> 0, s |-> s]

Quote(s) == "\"" \o s \o "\""

\* JSON.stringify of a primitive: numbers bare, strings quoted
JSONStringifyValue(x) == IF x.t = "number" THEN ToString(x.n) ELSE Quote(x.s)

RECURSIVE JSONMembers(_)
\* the members of an object, in the insertion order of its keys
JSONMembers(props) ==
    IF Len(props) = 0 THEN ""
    ELSE Quote(props[1].name) \o ":" \o JSONStringifyValue(props[1].value)
         \o (IF Len(props) = 1 THEN "" ELSE "," \o JSONMembers(Tail(props)))

\* JSON.stringify of a flat object given as its <<name, value>> pairs in
\* insertion order
JSONStringifyObject(props) == "{" \o JSONMembers(props) \o "}"

\* crypto.createHash('md5').update(data).digest('hex'): a digest of the
\* whole text, taken to be free of collisions
md5(data) == "md5:" \o data

generateCacheKeyNoParams(method, url, params) ==
    md5("{" \o Quote("method") \o ":" \o Quote(method)
            \o "," \o Quote("url") \o ":" \o Quote(url) \o "}")

\* JSON.stringify({ method, url, params }): the three members in this order,
\* params with its keys in the order the caller inserted them
generateCacheKey(method, url, params) ==
    md5("{" \o Quote("method") \o ":" \o Quote(method)
            \o "," \o Quote("url") \o ":" \o Quote(url)
            \o "," \o Quote("params") \o ":" \o JSONStringifyObject(params) \o "}")

---------------------------------------------------------------------------
(* Response bodies and the cache files *)

Arr(items) == [t |-> "array", items |-> items]
Null == [t |-> "null", items |-> <<>>]

\* the bodies the API answers with: arrays (list pages), never a falsy value
Bodies == {Arr(<<>>), Arr(<<1, 2>>)}

TruthyNever(v) == FALSE

\* if (cachedData): null is falsy, every array (the empty one too) is truthy
Truthy(v) == v.t # "null"

RECURSIVE JSONItems(_)
JSONItems(items) ==
    IF Len(items) = 0 THEN ""
    ELSE "  " \o ToString(items[1])
         \o (IF Len(items) = 1 THEN "\n" ELSE ",\n" \o JSONItems(Tail(items)))

\* JSON.stringify(data, null, 2)
JSONStringifyPretty(v) ==
    IF v.t = "null" THEN "null"
    ELSE IF Len(v.items) = 0 THEN "[]"
    ELSE "[\n" \o JSONItems(v.items) \o "]"

\* JSON.parse on the text of a cache file: it throws on a text that is no
\* JSON document
Parseable(text) == \E b \in Bodies : JSONStringifyPretty(b) = text
JSONParse(text) == CHOOSE b \in Bodies : JSONStringifyPretty(b) = text

\* a file whose writing was cut short
CorruptText == "[\n  1,"

\* ver numbers the writes of one file (0: never written); it is not read by
\* the program
NoFile == [exists |-> FALSE, content |-> "", mtime |-> 0, ver |-> 0]
FileOf(text, t, v) == [exists |-> TRUE, content |-> text, mtime |-> t, ver |-> v]

getCachedDataLenientParse(cacheKey, ttlDays, force) ==
    LET f == cache[cacheKey] IN
    IF f.exists /\ (force \/ now - f.mtime <= ttlDays)
    THEN IF Parseable(f.content) THEN JSONParse(f.content) ELSE Arr(<<>>)
    ELSE Null

getCachedDataNoTtl(cacheKey, ttlDays, force) ==
    LET f == cache[cacheKey] IN
    IF f.exists /\ Parseable(f.content) THEN JSONParse(f.content) ELSE Null

getCachedDataStrictTtl(cacheKey, ttlDays, force) ==
    LET f == cache[cacheKey] IN
    IF f.exists /\ (force \/ now - f.mtime < ttlDays) /\ Parseable(f.content)
    THEN JSONParse(f.content) ELSE Null

getCachedData(cacheKey, ttlDays, force) ==
    LET f == cache[cacheKey] IN
    IF f.exists
    THEN IF force
         THEN IF Parseable(f.content) THEN JSONParse(f.content) ELSE Null
         ELSE IF now - f.mtime <= ttlDays
              THEN IF Parseable(f.content) THEN JSONParse(f.content) ELSE Null
              ELSE Null
    ELSE Null

saveCacheDataNoWrite(cacheKey, data, writeOk) == cache

saveCacheDataKeepExisting(cacheKey, data, writeOk) ==
    IF writeOk /\ ~cache[cacheKey].exists
    THEN [cache EXCEPT ![cacheKey] =
             FileOf(JSONStringifyPretty(data), now, cache[cacheKey].ver + 1)]
    ELSE cache

\* fs.writeFileSync replaces the file; when it throws (writeOk false) the
\* error is logged and the file is left as it was
saveCacheData(cacheKey, data, writeOk) ==
    IF writeOk
    THEN [cache EXCEPT ![cacheKey] =
             FileOf(JSONStringifyPretty(data), now, cache[cacheKey].ver + 1)]
    ELSE cache

---------------------------------------------------------------------------
(* Errors of the API and of cachedRequest *)

RateLimitPhrase == "API rate limit exceeded"
QuotaPhrase == "Request quota exhausted"

\* error.message.includes(phrase): a message is the sequence of its phrases
Includes(message, phrase) == \E i \in 1..Len(message) : message[i] = phrase

ApiError(status, message) == [thrown |-> TRUE, status |-> status, message |-> message]
NoError == [thrown |-> FALSE, status |-> 0, message |-> <<>>]

\* the errors octokit.request rejects with
ApiErrors ==
    { ApiError(RateLimitStatus, <<RateLimitPhrase>>),
      ApiError(RateLimitStatus, <<QuotaPhrase>>),
      ApiError(404, <<"Not Found">>),
      ApiError(500, <<RateLimitPhrase>>) }

\* new Error(`Cache forçado, mas não encontrado para ...`): no status
ForcedMissError == ApiError(0, <<"Cache forcado, mas nao encontrado">>)

\* new Error(`Limite de tentativas excedido para ...: ${error.message}`)
RetriesExhaustedError(e) == ApiError(0, <<"Limite de tentativas excedido">> \o e.message)

IsRateLimitError(e) == e.status = RateLimitStatus /\ Includes(e.message, RateLimitPhrase)

IsQuotaErrorAny(e) == TRUE
IsQuotaError(e) == Includes(e.message, QuotaPhrase)

RetriesExhausted(retryCount) == retryCount >= MaxRetries

RateLimitWaitTimeLinear(retryCount) == (retryCount + 1) * RateLimitBaseWait
RateLimitWaitTime(retryCount) == (2 ^ retryCount) * RateLimitBaseWait

QuotaWaitTimeRateBase(retryCount) == (2 ^ retryCount) * RateLimitBaseWait
QuotaWaitTime(retryCount) == (2 ^ retryCount) * QuotaBaseWait

---------------------------------------------------------------------------
(* The requests of the model *)

Request(method, url, params, ttlDays) ==
    [method |-> method, url |-> url, params |-> params, ttlDays |-> ttlDays]

Param(name, value) == [name |-> name, value |-> value]

\* fetchAllPullRequests: the request for one page of a repository's PRs
PullsRequest(page) ==
    Request("GET", "/repos/{owner}/{repo}/pulls",
            << Param("owner", Str("acme")), Param("repo", Str("widgets")),
               Param("state", Str("all")), Param("sort", Str("created")),
               Param("direction", Str("desc")), Param("per_page", Num(PerPage)),
               Param("page", Num(page)) >>,
            PullsTtlDays)

\* fetchPullRequestCommits: the request for one page of a PR's commits
CommitsRequest(page) ==
    Request("GET", "/repos/{owner}/{repo}/pulls/{pull_number}/commits",
            << Param("owner", Str("acme")), Param("repo", Str("widgets")),
               Param("pull_number", Num(1)), Param("per_page", Num(PerPage)),
               Param("page", Num(page)) >>,
            CommitsTtlDays)

KeyOf(req) == generateCacheKey(req.method, req.url, req.params)

ClientRequests == {PullsRequest(1)}
ClientKeys == {KeyOf(r) : r \in ClientRequests}
CommitKeys == {KeyOf(CommitsRequest(p)) : p \in 1..(MaxCommitPages + 1)}
AllKeys == ClientKeys \cup CommitKeys

---------------------------------------------------------------------------
(* cachedRequest *)

Calls == 1..NCalls

NoResponse == [kind |-> "none", data |-> Null, error |-> NoError]
DataResponse(data) == [kind |-> "data", data |-> data, error |-> NoError]
ErrorResponse(e) == [kind |-> "error", data |-> Null, error |-> e]

\* One call chain of cachedRequest (the call and its recursive retries).
\*   pc: idle | live (awaiting octokit.request) | backoff (awaiting the
\*       timer) | returned | thrown
\*   waits, live, resp, seenVer, wroteSeq record what the chain did: the
\*   waits it slept with the branch that chose each, the live calls it
\*   issued, the last response it got, the version of the cache file at its
\*   last cache check, and the rank of its cache write among all the writes
\*   that did not throw (0: it wrote nothing)
IdleCall ==
    [pc |-> "idle", req |-> PullsRequest(1), cacheKey |-> "", retryCount |-> 0,
     result |-> Null, error |-> NoError,
     waits |-> <<>>, live |-> 0, resp |-> NoResponse, seenVer |-> 0, wroteSeq |-> 0]

Wait(ms, branch) == [ms |-> ms, branch |-> branch]

\* lines 82-97: the cache check, then the return, the forced-miss throw or the
\* live call
cachedRequest(c, req, retryCount) ==
    LET cacheKey == generateCacheKey(req.method, req.url, req.params)
        cachedData == getCachedData(cacheKey, req.ttlDays, forceCache)
        chain == IF retryCount = 0 THEN IdleCall ELSE calls[c]
        entered == [chain EXCEPT !.req = req, !.cacheKey = cacheKey,
                                    !.retryCount = retryCount,
                                    !.seenVer = cache[cacheKey].ver]
    IN  IF Truthy(cachedData)
        THEN /\ calls' = [calls EXCEPT ![c] =
                    [entered EXCEPT !.pc = "returned", !.result = cachedData]]
             /\ UNCHANGED liveRequests
        ELSE IF forceCache
        THEN /\ calls' = [calls EXCEPT ![c] =
                    [entered EXCEPT !.pc = "thrown", !.error = ForcedMissError]]
             /\ UNCHANGED liveRequests
        ELSE /\ calls' = [calls EXCEPT ![c] =
                    [entered EXCEPT !.pc = "live", !.live = @ + 1]]
             /\ liveRequests' = liveRequests + 1

Max(S) == CHOOSE x \in S : \A y \in S : y <= x
LastWriteSeq == Max({calls[d].wroteSeq : d \in Calls})

\* the page number of a request (its last parameter)
PageOf(req) == req.params[Len(req.params)].value.n

\* the bodies the API can answer a request with: a PR has MaxCommitPages
\* pages of commits, and every page after them is empty
ApiBodies(req) ==
    IF req.url = "/repos/{owner}/{repo}/pulls/{pull_number}/commits"
       /\ PageOf(req) > MaxCommitPages
    THEN {Arr(<<>>)} ELSE Bodies

\* lines 98-100: the live call resolved
RequestResolves(c) ==
    /\ calls[c].pc = "live"
    /\ \E data \in ApiBodies(calls[c].req), writeOk \in BOOLEAN :
          /\ cache' = saveCacheData(calls[c].cacheKey, data, writeOk)
          /\ calls' = [calls EXCEPT ![c] =
                 [@ EXCEPT !.pc = "returned", !.result = data,
                           !.resp = DataResponse(data),
                           !.wroteSeq = IF writeOk THEN LastWriteSeq + 1 ELSE 0]]
    /\ UNCHANGED <<forceCache, now, liveRequests>>

RequestRejectsSeparateCounters(c, errors) ==
    /\ calls[c].pc = "live"
    /\ \E e \in errors :
          LET cl == [calls[c] EXCEPT !.resp = ErrorResponse(e)]
              rateWaits == Len(SelectSeq(cl.waits, LAMBDA w : w.branch = "rate"))
              quotaWaits == Len(SelectSeq(cl.waits, LAMBDA w : w.branch = "quota"))
          IN
          calls' = [calls EXCEPT ![c] =
              IF IsRateLimitError(e)
              THEN IF RetriesExhausted(rateWaits)
                   THEN [cl EXCEPT !.pc = "thrown", !.error = RetriesExhaustedError(e)]
                   ELSE [cl EXCEPT !.pc = "backoff",
                            !.waits = Append(@, Wait(RateLimitWaitTime(rateWaits), "rate"))]
              ELSE IF IsQuotaError(e)
              THEN IF RetriesExhausted(quotaWaits)
                   THEN [cl EXCEPT !.pc = "thrown", !.error = RetriesExhaustedError(e)]
                   ELSE [cl EXCEPT !.pc = "backoff",
                            !.waits = Append(@, Wait(QuotaWaitTime(quotaWaits), "quota"))]
              ELSE [cl EXCEPT !.pc = "thrown", !.error = e]]
    /\ UNCHANGED <<forceCache, now, cache, liveRequests>>

\* lines 101-136: the live call rejected
RequestRejects(c, errors) ==
    /\ calls[c].pc = "live"
    /\ \E e \in errors :
          LET cl == [calls[c] EXCEPT !.resp = ErrorResponse(e)] IN
          calls' = [calls EXCEPT ![c] =
              IF IsRateLimitError(e)
              THEN IF RetriesExhausted(cl.retryCount)
                   THEN [cl EXCEPT !.pc = "thrown", !.error = RetriesExhaustedError(e)]
                   ELSE [cl EXCEPT !.pc = "backoff",
                            !.waits = Append(@, Wait(RateLimitWaitTime(cl.retryCount), "rate"))]
              ELSE IF IsQuotaError(e)
              THEN IF RetriesExhausted(cl.retryCount)
                   THEN [cl EXCEPT !.pc = "thrown", !.error = RetriesExhaustedError(e)]
                   ELSE [cl EXCEPT !.pc = "backoff",
                            !.waits = Append(@, Wait(QuotaWaitTime(cl.retryCount), "quota"))]
              ELSE [cl EXCEPT !.pc = "thrown", !.error = e]]
    /\ UNCHANGED <<forceCache, now, cache, liveRequests>>

BackoffElapsesNoRecheck(c) ==
    /\ calls[c].pc = "backoff"
    /\ calls' = [calls EXCEPT ![c] =
           [@ EXCEPT !.pc = "live", !.retryCount = @ + 1, !.live = @ + 1]]
    /\ liveRequests' = liveRequests + 1
    /\ UNCHANGED <<forceCache, now, cache>>

\* lines 113-116 and 129-131: the timer fired, cachedRequest recurses with
\* retryCount + 1
BackoffElapses(c) ==
    /\ calls[c].pc = "backoff"
    /\ cachedRequest(c, calls[c].req, calls[c].retryCount + 1)
    /\ UNCHANGED <<forceCache, now, cache>>

\* a caller (any list paginator) calls cachedRequest with retryCount 0
Call(c) ==
    /\ calls[c].pc = "idle"
    /\ \E req \in ClientRequests : cachedRequest(c, req, 0)
    /\ UNCHANGED <<forceCache, now, cache>>

\* a day passes
Tick ==
    /\ now < MaxTime
    /\ now' = now + 1
    /\ UNCHANGED <<forceCache, cache, calls, liveRequests>>

---------------------------------------------------------------------------
(* The request client: one call chain, then concurrent call chains *)

FcIdle == [pc |-> "idle", page |-> 1, hasMorePages |-> TRUE, commits |-> <<>>,
           data |-> <<>>, idx |-> 0]
KIdle == [method |-> "", url |-> "", params |-> <<>>]

\* main before its call
\*   pc: idle | awaitRepos | awaitPulls | awaitBatch | done | exited
\*   repositories is what fetchRepositories returned, r the position of the
\*   loop over it, recorded the names put in data.repositories, misses the
\*   requests that threw the forced-cache-miss error, written whether the
\*   output file was written, exitCode the argument of process.exit (0
\*   when it was not called)
RunIdle ==
    [pc |-> "idle", repositories |-> <<>>, r |-> 0, recorded |-> <<>>,
     misses |-> {}, written |-> FALSE, exitCode |-> 0]

\* fetchAllPullRequests before its call, with its locals as lines 533-537
\* set them
\*   pc: idle | awaitPage (awaiting cachedRequest) | awaitAll (awaiting
\*       Promise.all) | done
\*   pulls is what the API holds, since the cutoff; requested lists the
\*   pages asked for; stop tells what ended the loop: none | empty | cutoff |
\*   error
PlIdle(pulls, since) ==
    [pc |-> "idle", pulls |-> pulls, since |-> since, page |-> 1,
     hasMorePages |-> TRUE, allPullRequests |-> <<>>, pagePromises |-> <<>>,
     requested |-> <<>>, stop |-> "none", ret |-> <<>>]

\* a worker of processInBatches: the promise processFunction(item) returned
\*   st: notStarted | running | fulfilled | rejected
NoResult == [item |-> 0, v |-> 0]
NotStarted == [st |-> "notStarted", out |-> NoResult]
Running == [st |-> "running", out |-> NoResult]
Fulfilled(out) == [st |-> "fulfilled", out |-> out]
Rejected == [st |-> "rejected", out |-> NoResult]

\* the promise processInBatches returned: pending, fulfilled with the
\* results, or rejected with the error of worker `by`
Pending == [kind |-> "pending", value |-> <<>>, by |-> 0]
FulfilledWith(results) == [kind |-> "value", value |-> results, by |-> 0]
RejectedBy(j) == [kind |-> "error", value |-> <<>>, by |-> j]

\* processInBatches before its call
\*   pc: idle | awaitBatch (awaiting Promise.all) | returned | thrown
\*   worker[j] is the worker of items[j]; done lists the workers in the
\*   order they settled
PbIdle(items, batchSize) ==
    [pc |-> "idle", items |-> items, batchSize |-> batchSize, i |-> 0,
     results |-> <<>>, worker |-> [j \in 1..Len(items) |-> NotStarted],
     done |-> <<>>, ret |-> Pending]

\* a list paginator before its call, with its locals as the function sets
\* them (lines 867-869)
\*   pc: idle | awaitPage (awaiting the page request) | returned | thrown
\*   rows is what the API holds for the resource; requested lists the pages
\*   asked for, inflight the pages asked for and not yet answered; failed is
\*   the page whose request was rejected (0 when none was)
NoPaginator == [file |-> "", fn |-> ""]
PgIdle(paginator, rows) ==
    [pc |-> "idle", paginator |-> paginator, rows |-> rows, page |-> 1,
     hasMorePages |-> TRUE, items |-> <<>>, requested |-> <<>>,
     inflight |-> {}, failed |-> 0, ret |-> <<>>]

\* processPR before its call
\*   pc: idle | awaitDetails | awaitAll (awaiting Promise.all) | returned |
\*       thrown
\*   plan is what each of the four fetchers will resolve with; issued lists
\*   the fetchers called, done the ones that settled, in settling order;
\*   value[k] is what fetcher k resolved with
NoPlan == <<<<>>, <<>>, <<>>, <<>>>>
NoDetails ==
    [number |-> 0, commits |-> <<>>, reviews |-> <<>>, comments |-> <<>>,
     review_requests |-> <<>>]
NoFailure == <<0, 0, 0, 0>>
PprIdle(plan) ==
    [pc |-> "idle", plan |-> plan, failsAt |-> NoFailure,
     detailedPR |-> NoDetails, issued |-> <<>>,
     done |-> <<>>, value |-> <<<<>>, <<>>, <<>>, <<>>>>, ret |-> NoDetails]

\* fetchPullRequestComments before its call
\*   pc: idle | awaitLine | awaitIssue | awaitReviews | returned
\*   line, issue and reviews are the three raw sources as the API lists
\*   them; runs counts the calls made, first is what the first call returned
CmtIdle(file, line, issue, reviews) ==
    [pc |-> "idle", file |-> file, line |-> line, issue |-> issue,
     reviews |-> reviews, comments |-> <<>>, runs |-> 0, first |-> <<>>,
     ret |-> <<>>]

\* main at the point where it has the repositories (line 356)
\*   pc: idle | loop (in the loop over the repositories) | done
\*   fetched[r] is what the API holds for the PRs of repository r in the
\*   window; repositories is data.repositories, summary data.summary
ZeroSummary ==
    [total_repositories |-> 0, total_pull_requests |-> 0,
     open_pull_requests |-> 0, closed_pull_requests |-> 0,
     merged_pull_requests |-> 0, total_commits |-> 0, total_comments |-> 0,
     total_reviews |-> 0, total_review_requests |-> 0, total_additions |-> 0,
     total_deletions |-> 0, total_changed_files |-> 0]
SnapIdle(fetched) ==
    [pc |-> "idle", fetched |-> fetched, r |-> 0, repositories |-> <<>>,
     summary |-> ZeroSummary, written |-> FALSE]

\* main before its call
\*   pc: idle | awaitRepos (startup passed, fetchRepositories called) | exited
\*   argv is process.argv.slice(2), each argument a sequence of characters;
\*   token and org tell whether GH_TOKEN and GH_ORG are set; cacheDir tells
\*   whether the cache directory exists, cacheReads counts the cache files
\*   looked up
BootIdle(argv, token, org) ==
    [pc |-> "idle", argv |-> argv, token |-> token, org |-> org,
     cacheDir |-> FALSE, days |-> 0, forceCache |-> FALSE, exitCode |-> 0,
     requests |-> 0, cacheReads |-> 0]

\* the two calls of fetchPullRequestReviews made for one PR
\*   listing is what the API holds for the PR's reviews; call[f] is the
\*   state of call f: pc idle | awaitPage | returned, its page and reviews
RvCallIdle == [pc |-> "idle", page |-> 1, reviews |-> <<>>]
RvIdle(listing) ==
    [listing |-> listing, cached |-> {}, call |-> <<RvCallIdle, RvCallIdle>>,
     failures |-> 0]

InitialFiles ==
    {NoFile, FileOf(CorruptText, 0, 1)}
        \cup {FileOf(JSONStringifyPretty(b), 0, 1) : b \in Bodies}

Init ==
    /\ forceCache \in BOOLEAN
    /\ now = 0
    /\ cache \in {f \in [AllKeys -> InitialFiles] :
                     \A k \in AllKeys \ ClientKeys : f[k] = NoFile}
    /\ calls = [c \in Calls |-> IdleCall]
    /\ liveRequests = 0
    /\ fc = FcIdle
    /\ kreq = <<KIdle, KIdle>>
    /\ kkey = <<>>
    /\ pb = PbIdle(<<>>, 1)
    /\ pl = PlIdle(<<>>, 1)
    /\ run = RunIdle
    /\ pg = PgIdle(NoPaginator, <<>>)
    /\ ppr = PprIdle(NoPlan)
    /\ cmt = CmtIdle("", <<>>, <<>>, <<>>)
    /\ snap = SnapIdle(<<>>)
    /\ boot = BootIdle(<<>>, FALSE, FALSE)
    /\ rv = RvIdle(<<>>)

\* one cachedRequest call chain, against every error of the API
Next ==
    \/ Call(1) /\ UNCHANGED <<fc, kreq, kkey, pb, pl, run, pg, ppr, cmt, snap, boot, rv>>
    \/ RequestResolves(1) /\ UNCHANGED <<fc, kreq, kkey, pb, pl, run, pg, ppr, cmt, snap, boot, rv>>
    \/ RequestRejects(1, ApiErrors) /\ UNCHANGED <<fc, kreq, kkey, pb, pl, run, pg, ppr, cmt, snap, boot, rv>>
    \/ BackoffElapses(1) /\ UNCHANGED <<fc, kreq, kkey, pb, pl, run, pg, ppr, cmt, snap, boot, rv>>
    \/ Tick /\ UNCHANGED <<fc, kreq, kkey, pb, pl, run, pg, ppr, cmt, snap, boot, rv>>

Spec == Init /\ [][Next]_vars

\* the same call chain where what is awaited arrives: octokit.request
\* settles (lines 99, 101) and the timer of setTimeout fires (113, 129)
LiveCallSettles ==
    /\ RequestResolves(1) \/ RequestRejects(1, ApiErrors)
    /\ UNCHANGED <<fc, kreq, kkey, pb, pl, run, pg, ppr, cmt, snap, boot, rv>>
TimerFires ==
    /\ BackoffElapses(1)
    /\ UNCHANGED <<fc, kreq, kkey, pb, pl, run, pg, ppr, cmt, snap, boot, rv>>

SpecSettling ==
    Init /\ [][Next]_vars /\ WF_vars(LiveCallSettles) /\ WF_vars(TimerFires)

\* the errors the API answers the concurrent call chains with: one that is
\* retried and one that is not
ConcurrentErrors ==
    { ApiError(RateLimitStatus, <<RateLimitPhrase>>), ApiError(404, <<"Not Found">>) }

\* NCalls cachedRequest call chains for the same request, interleaved at
\* their awaits
NextConcurrent ==
    \/ \E c \in Calls : Call(c) /\ UNCHANGED <<fc, kreq, kkey, pb, pl, run, pg, ppr, cmt, snap, boot, rv>>
    \/ \E c \in Calls : RequestResolves(c) /\ UNCHANGED <<fc, kreq, kkey, pb, pl, run, pg, ppr, cmt, snap, boot, rv>>
    \/ \E c \in Calls : RequestRejects(c, ConcurrentErrors) /\ UNCHANGED <<fc, kreq, kkey, pb, pl, run, pg, ppr, cmt, snap, boot, rv>>
    \/ \E c \in Calls : BackoffElapses(c) /\ UNCHANGED <<fc, kreq, kkey, pb, pl, run, pg, ppr, cmt, snap, boot, rv>>
    \/ Tick /\ UNCHANGED <<fc, kreq, kkey, pb, pl, run, pg, ppr, cmt, snap, boot, rv>>

SpecConcurrent == Init /\ [][NextConcurrent]_vars

---------------------------------------------------------------------------
(* fetchPullRequestCommits, calling cachedRequest as call chain 1 *)

Commit(sha, stats) == [sha |-> sha, stats |-> stats]

FcState(pc, page, hasMorePages, commits, data, idx) ==
    [pc |-> pc, page |-> page, hasMorePages |-> hasMorePages,
     commits |-> commits, data |-> data, idx |-> idx]

\* line 806: the statistics of one commit are requested from octokit
\* directly, not through cachedRequest
RequestCommitStats == liveRequests' = liveRequests + 1

\* lines 782-798 and 862: the loop test, then the cachedRequest call for the
\* page (run to its first await) or the return of the commits
CommitsLoop(page, hasMorePages, commits) ==
    IF hasMorePages
    THEN /\ cachedRequest(1, CommitsRequest(page), 0)
         /\ fc' = FcState("awaitPage", page, TRUE, commits, <<>>, 0)
    ELSE /\ fc' = FcState("done", page, FALSE, commits, <<>>, 0)
         /\ UNCHANGED <<calls, liveRequests>>

\* lines 777-798
fetchPullRequestCommits ==
    /\ fc.pc = "idle"
    /\ CommitsLoop(1, TRUE, <<>>)
    /\ UNCHANGED <<forceCache, now, cache>>

\* lines 800-806: the page arrived; an empty page ends the loop, any other
\* page starts the loop over its commits with the first statistics request
CommitsPageReturned ==
    /\ fc.pc = "awaitPage" /\ calls[1].pc = "returned"
    /\ LET data == calls[1].result.items IN
       IF Len(data) = 0
       THEN CommitsLoop(fc.page, FALSE, fc.commits)
       ELSE /\ fc' = FcState("awaitStats", fc.page, TRUE, fc.commits, data, 1)
            /\ RequestCommitStats
            /\ UNCHANGED calls
    /\ UNCHANGED <<forceCache, now, cache>>

\* lines 856-859: cachedRequest threw; the pagination stops
CommitsPageThrown ==
    /\ fc.pc = "awaitPage" /\ calls[1].pc = "thrown"
    /\ CommitsLoop(fc.page, FALSE, fc.commits)
    /\ UNCHANGED <<forceCache, now, cache>>

\* lines 804-806 and 854: the next commit's statistics request, or page++ and
\* the loop again
AfterCommit(commits) ==
    IF fc.idx < Len(fc.data)
    THEN /\ fc' = FcState("awaitStats", fc.page, TRUE, commits, fc.data, fc.idx + 1)
         /\ RequestCommitStats
         /\ UNCHANGED calls
    ELSE CommitsLoop(fc.page + 1, TRUE, commits)

\* lines 812-848: the statistics request resolved; the commit is formatted,
\* with stats when the response has them, and pushed
CommitStatsResolves ==
    /\ fc.pc = "awaitStats"
    /\ \E stats \in {"present", "absent"} :
          AfterCommit(Append(fc.commits, Commit(fc.data[fc.idx], stats)))
    /\ UNCHANGED <<forceCache, now, cache>>

\* lines 849-851: the statistics request rejected; a warning is logged
CommitStatsRejects ==
    /\ fc.pc = "awaitStats"
    /\ AfterCommit(fc.commits)
    /\ UNCHANGED <<forceCache, now, cache>>

EmptyPageFiles == {NoFile, FileOf(CorruptText, 0, 1), FileOf(JSONStringifyPretty(Arr(<<>>)), 0, 1)}

\* The clock is held at 0 here: a run of the fetcher, backoff waits included,
\* is far shorter than the 7-day TTL of its requests.
InitCommits ==
    /\ forceCache \in BOOLEAN
    /\ now = 0
    /\ cache \in {f \in [AllKeys -> InitialFiles] :
                     /\ \A k \in ClientKeys : f[k] = NoFile
                     /\ f[KeyOf(CommitsRequest(MaxCommitPages + 1))] \in EmptyPageFiles}
    /\ calls = [c \in Calls |-> IdleCall]
    /\ liveRequests = 0
    /\ fc = FcIdle
    /\ kreq = <<KIdle, KIdle>>
    /\ kkey = <<>>
    /\ pb = PbIdle(<<>>, 1)
    /\ pl = PlIdle(<<>>, 1)
    /\ run = RunIdle
    /\ pg = PgIdle(NoPaginator, <<>>)
    /\ ppr = PprIdle(NoPlan)
    /\ cmt = CmtIdle("", <<>>, <<>>, <<>>)
    /\ snap = SnapIdle(<<>>)
    /\ boot = BootIdle(<<>>, FALSE, FALSE)
    /\ rv = RvIdle(<<>>)

NextCommits ==
    \/ fetchPullRequestCommits /\ UNCHANGED <<kreq, kkey, pb, pl, run, pg, ppr, cmt, snap, boot, rv>>
    \/ fc.pc = "awaitPage" /\ RequestResolves(1) /\ UNCHANGED <<fc, kreq, kkey, pb, pl, run, pg, ppr, cmt, snap, boot, rv>>
    \/ fc.pc = "awaitPage" /\ RequestRejects(1, ApiErrors) /\ UNCHANGED <<fc, kreq, kkey, pb, pl, run, pg, ppr, cmt, snap, boot, rv>>
    \/ fc.pc = "awaitPage" /\ BackoffElapses(1) /\ UNCHANGED <<fc, kreq, kkey, pb, pl, run, pg, ppr, cmt, snap, boot, rv>>
    \/ CommitsPageReturned /\ UNCHANGED <<kreq, kkey, pb, pl, run, pg, ppr, cmt, snap, boot, rv>>
    \/ CommitsPageThrown /\ UNCHANGED <<kreq, kkey, pb, pl, run, pg, ppr, cmt, snap, boot, rv>>
    \/ CommitStatsResolves /\ UNCHANGED <<kreq, kkey, pb, pl, run, pg, ppr, cmt, snap, boot, rv>>
    \/ CommitStatsRejects /\ UNCHANGED <<kreq, kkey, pb, pl, run, pg, ppr, cmt, snap, boot, rv>>

SpecCommits == InitCommits /\ [][NextCommits]_vars

---------------------------------------------------------------------------
(* The cache key of two requests *)

KMethods == {"GET", "POST"}
KUrls == {"/orgs/{org}/repos", "/repos/{owner}/{repo}/pulls"}
KNames == {"owner", "page"}
KValues == {Num(n) : n \in 1..MaxPage} \cup {Str("1")}

\* the parameter objects: every insertion order of every set of names
KParams ==
    {<<>>}
    \cup {<<Param(n, v)>> : n \in KNames, v \in KValues}
    \cup {<<Param(n1, v1), Param(n2, v2)>> :
             <<n1, n2>> \in {q \in KNames \X KNames : q[1] # q[2]},
             <<v1, v2>> \in KValues \X KValues}

KRequests == [method : KMethods, url : KUrls, params : KParams]

InitKey ==
    /\ kreq \in KRequests \X KRequests
    /\ kkey = <<>>
    /\ forceCache = FALSE
    /\ now = 0
    /\ cache = [k \in AllKeys |-> NoFile]
    /\ calls = [c \in Calls |-> IdleCall]
    /\ liveRequests = 0
    /\ fc = FcIdle
    /\ pb = PbIdle(<<>>, 1)
    /\ pl = PlIdle(<<>>, 1)
    /\ run = RunIdle
    /\ pg = PgIdle(NoPaginator, <<>>)
    /\ ppr = PprIdle(NoPlan)
    /\ cmt = CmtIdle("", <<>>, <<>>, <<>>)
    /\ snap = SnapIdle(<<>>)
    /\ boot = BootIdle(<<>>, FALSE, FALSE)
    /\ rv = RvIdle(<<>>)

\* line 82, for each of the two requests
HashRequests ==
    /\ kkey = <<>>
    /\ kkey' = << generateCacheKey(kreq[1].method, kreq[1].url, kreq[1].params),
                  generateCacheKey(kreq[2].method, kreq[2].url, kreq[2].params) >>
    /\ UNCHANGED <<kreq, forceCache, now, cache, calls, liveRequests, fc, pb, pl, run, pg, ppr, cmt, snap, boot, rv>>

NextKey == HashRequests

SpecKey == InitKey /\ [][NextKey]_vars

---------------------------------------------------------------------------
(* processInBatches *)

\* pull request numbers
BatchItems == {1, 2}

\* the lists given to processInBatches
ItemLists == UNION {[1..n -> BatchItems] : n \in 0..MaxItems}

\* what processFunction(item) can resolve with
WorkerResults(item) == {[item |-> item, v |-> v] : v \in 1..2}

Min(a, b) == IF a < b THEN a ELSE b

SliceToEnd(items, start, end) == (start + 1)..Len(items)

\* items.slice(start, end), as the positions (from 1) of the items it takes
Slice(items, start, end) == (start + 1)..Min(end, Len(items))

\* the positions of the chunk processInBatches is at
Batch(s) == Slice(s.items, s.i, s.i + s.batchSize)

InBatch(j) == j \in Batch(pb)
SettleOrder(s) == SelectSeq(s.done, InBatch)

PromiseAllInSettleOrder(s, positions) ==
    [k \in 1..Cardinality(positions) |-> s.worker[SettleOrder(s)[k]].out]

\* the value Promise.all fulfills with: the values of the promises in the
\* order of the array it was given
PromiseAll(s, positions) ==
    [k \in 1..Cardinality(positions) |-> s.worker[s.i + k].out]

PromiseAllFulfilledFirst(s, positions) ==
    \E j \in positions : s.worker[j].st = "fulfilled"

\* Promise.all fulfills once every promise of the array is fulfilled
PromiseAllFulfilled(s, positions) ==
    \A j \in positions : s.worker[j].st = "fulfilled"

PromiseAllRejectedNever(s, positions) == FALSE

\* Promise.all rejects as soon as one promise of the array is rejected
PromiseAllRejected(s, positions) ==
    \E j \in positions : s.worker[j].st = "rejected"

\* lines 1129-1138: the loop test, then batch.map(processFunction), which
\* starts every worker of the chunk, or the return of the results
BatchLoop(s, i) ==
    IF i < Len(s.items)
    THEN [s EXCEPT !.pc = "awaitBatch", !.i = i,
                   !.worker = [j \in 1..Len(s.items) |->
                                  IF j \in Slice(s.items, i, i + s.batchSize)
                                  THEN Running ELSE s.worker[j]]]
    ELSE [s EXCEPT !.pc = "returned", !.i = i, !.ret = FulfilledWith(s.results)]

\* lines 1134-1135: what follows `await Promise.all(...)` when a worker has
\* settled: the rejection leaves processInBatches (it has no try/catch), the
\* fulfilment pushes the values and goes round the loop, and a Promise.all
\* still pending, or one that settled before, changes nothing
AwaitPromiseAll(s) ==
    IF s.pc # "awaitBatch" THEN s
    ELSE IF PromiseAllRejected(s, Batch(s))
    THEN [s EXCEPT !.pc = "thrown", !.ret = RejectedBy(s.done[Len(s.done)])]
    ELSE IF PromiseAllFulfilled(s, Batch(s))
    THEN BatchLoop([s EXCEPT !.results = @ \o PromiseAll(s, Batch(s))],
                   s.i + s.batchSize)
    ELSE s

\* lines 1125-1134: the call, run to its first await
processInBatches ==
    /\ pb.pc = "idle"
    /\ pb' = BatchLoop(pb, 0)
    /\ UNCHANGED <<forceCache, now, cache, calls, liveRequests, fc, kreq, kkey, pl, run, pg, ppr, cmt, snap, boot, rv>>

\* processFunction(items[j]) resolved
WorkerResolves(j) ==
    /\ pb.worker[j].st = "running"
    /\ \E out \in WorkerResults(pb.items[j]) :
          pb' = AwaitPromiseAll([pb EXCEPT !.worker[j] = Fulfilled(out),
                                           !.done = Append(@, j)])
    /\ UNCHANGED <<forceCache, now, cache, calls, liveRequests, fc, kreq, kkey, pl, run, pg, ppr, cmt, snap, boot, rv>>

\* processFunction(items[j]) rejected
WorkerRejects(j) ==
    /\ pb.worker[j].st = "running"
    /\ pb' = AwaitPromiseAll([pb EXCEPT !.worker[j] = Rejected,
                                        !.done = Append(@, j)])
    /\ UNCHANGED <<forceCache, now, cache, calls, liveRequests, fc, kreq, kkey, pl, run, pg, ppr, cmt, snap, boot, rv>>

InitBatch ==
    /\ pb \in {PbIdle(items, batchSize) :
                  items \in ItemLists, batchSize \in 1..MaxBatchSize}
    /\ forceCache = FALSE
    /\ now = 0
    /\ cache = [k \in AllKeys |-> NoFile]
    /\ calls = [c \in Calls |-> IdleCall]
    /\ liveRequests = 0
    /\ fc = FcIdle
    /\ kreq = <<KIdle, KIdle>>
    /\ kkey = <<>>
    /\ pl = PlIdle(<<>>, 1)
    /\ run = RunIdle
    /\ pg = PgIdle(NoPaginator, <<>>)
    /\ ppr = PprIdle(NoPlan)
    /\ cmt = CmtIdle("", <<>>, <<>>, <<>>)
    /\ snap = SnapIdle(<<>>)
    /\ boot = BootIdle(<<>>, FALSE, FALSE)
    /\ rv = RvIdle(<<>>)

NextBatch ==
    \/ processInBatches
    \/ \E j \in 1..Len(pb.items) : WorkerResolves(j)
    \/ \E j \in 1..Len(pb.items) : WorkerRejects(j)

SpecBatch == InitBatch /\ [][NextBatch]_vars

---------------------------------------------------------------------------
(* fetchAllPullRequests *)

Pull(number, created_at) == [number |-> number, created_at |-> created_at]

\* sort: 'created', direction: 'desc': the API lists the pull requests
\* newest first
NewestFirst(dates) == \A m, n \in 1..Len(dates) : m < n => dates[m] >= dates[n]

CreationDates ==
    {d \in UNION {[1..n -> 1..MaxDate] : n \in 0..MaxPulls} : NewestFirst(d)}

ApiPulls(dates) == [n \in 1..Len(dates) |-> Pull(n, dates[n])]

\* the page the API answers page number `page` with
ApiPage(pulls, page) ==
    SubSeq(pulls, (page - 1) * PullsPerPage + 1, Min(page * PullsPerPage, Len(pulls)))

KeepSinceStrict(data, since) ==
    SelectSeq(data, LAMBDA pr : pr.created_at > since)

\* data.filter(pr => new Date(pr.created_at) >= new Date(since))
KeepSince(data, since) ==
    SelectSeq(data, LAMBDA pr : pr.created_at >= since)

RECURSIVE KeepSinceEachButLast(_, _)
KeepSinceEachButLast(results, since) ==
    IF Len(results) <= 1 THEN <<>>
    ELSE KeepSince(results[1], since) \o KeepSinceEachButLast(Tail(results), since)

RECURSIVE KeepSinceEach(_, _)
\* lines 588-592: results.forEach, every page filtered and pushed in turn
KeepSinceEach(results, since) ==
    IF Len(results) = 0 THEN <<>>
    ELSE KeepSince(results[1], since) \o KeepSinceEach(Tail(results), since)

\* lines 540-558 and 587: the loop test, then the cachedRequest call for the
\* page or, the loop over, Promise.all(pagePromises)
PullsLoop(s) ==
    IF s.hasMorePages
    THEN [s EXCEPT !.pc = "awaitPage", !.requested = Append(@, s.page)]
    ELSE [s EXCEPT !.pc = "awaitAll"]

\* lines 532-558
fetchAllPullRequests ==
    /\ pl.pc = "idle"
    /\ pl' = PullsLoop(pl)
    /\ UNCHANGED <<forceCache, now, cache, calls, liveRequests, fc, kreq, kkey, pb, run, pg, ppr, cmt, snap, boot, rv>>

\* lines 561-579: cachedRequest returned the page. An empty page ends the
\* loop; so does a page whose last pull request was created before the
\* cutoff, after its pull requests since the cutoff were pushed; any other
\* page is kept for later and the next page is requested
PullsPageReturned ==
    /\ pl.pc = "awaitPage"
    /\ LET data == ApiPage(pl.pulls, pl.page) IN
       pl' = IF Len(data) = 0
             THEN PullsLoop([pl EXCEPT !.hasMorePages = FALSE, !.stop = "empty"])
             ELSE IF data[Len(data)].created_at < pl.since
             THEN PullsLoop([pl EXCEPT
                      !.allPullRequests = @ \o KeepSince(data, pl.since),
                      !.hasMorePages = FALSE, !.stop = "cutoff"])
             ELSE PullsLoop([pl EXCEPT !.pagePromises = Append(@, data),
                                       !.page = @ + 1])
    /\ UNCHANGED <<forceCache, now, cache, calls, liveRequests, fc, kreq, kkey, pb, run, pg, ppr, cmt, snap, boot, rv>>

\* lines 580-583: cachedRequest threw (a forced-cache miss, an API error,
\* retries exhausted); the error is logged and the loop ends
PullsPageThrown ==
    /\ pl.pc = "awaitPage"
    /\ pl' = PullsLoop([pl EXCEPT !.hasMorePages = FALSE, !.stop = "error"])
    /\ UNCHANGED <<forceCache, now, cache, calls, liveRequests, fc, kreq, kkey, pb, run, pg, ppr, cmt, snap, boot, rv>>

\* lines 587-594: Promise.all fulfilled with the pages kept, in the order
\* they were kept; they are filtered and pushed, and the list is returned
PullsPagesResolved ==
    /\ pl.pc = "awaitAll"
    /\ LET all == pl.allPullRequests \o KeepSinceEach(pl.pagePromises, pl.since) IN
       pl' = [pl EXCEPT !.pc = "done", !.allPullRequests = all, !.ret = all]
    /\ UNCHANGED <<forceCache, now, cache, calls, liveRequests, fc, kreq, kkey, pb, run, pg, ppr, cmt, snap, boot, rv>>

\* The cachedRequest call of the loop is taken by its outcome, the page or
\* the error; its own steps are those of Spec.
InitPulls ==
    /\ pl \in {PlIdle(ApiPulls(dates), since) :
                  dates \in CreationDates, since \in 1..(MaxDate + 1)}
    /\ forceCache = FALSE
    /\ now = 0
    /\ cache = [k \in AllKeys |-> NoFile]
    /\ calls = [c \in Calls |-> IdleCall]
    /\ liveRequests = 0
    /\ fc = FcIdle
    /\ kreq = <<KIdle, KIdle>>
    /\ kkey = <<>>
    /\ pb = PbIdle(<<>>, 1)
    /\ run = RunIdle
    /\ pg = PgIdle(NoPaginator, <<>>)
    /\ ppr = PprIdle(NoPlan)
    /\ cmt = CmtIdle("", <<>>, <<>>, <<>>)
    /\ snap = SnapIdle(<<>>)
    /\ boot = BootIdle(<<>>, FALSE, FALSE)
    /\ rv = RvIdle(<<>>)

NextPulls ==
    \/ fetchAllPullRequests
    \/ PullsPageReturned
    \/ PullsPageThrown
    \/ PullsPagesResolved

SpecPulls == InitPulls /\ [][NextPulls]_vars

---------------------------------------------------------------------------
(* main, in a run with --force-cache *)

RepoName(repo) == "repo" \o ToString(repo)

\* fetchRepositories: the request for one page of the organization's
\* repositories
ReposRequest(page) ==
    Request("GET", "/orgs/{org}/repos",
            << Param("org", Str("acme")), Param("type", Str("all")),
               Param("per_page", Num(PerPage)), Param("page", Num(page)) >>,
            ReposTtlDays)

\* fetchAllPullRequests: the request for one page of the PRs of repository
\* repo
RepoPullsRequest(repo, page) ==
    Request("GET", "/repos/{owner}/{repo}/pulls",
            << Param("owner", Str("acme")), Param("repo", Str(RepoName(repo))),
               Param("state", Str("all")), Param("sort", Str("created")),
               Param("direction", Str("desc")), Param("per_page", Num(PerPage)),
               Param("page", Num(page)) >>,
            PullsTtlDays)

\* fetchPullRequestDetails: the request for one PR
DetailsRequest(repo, number) ==
    Request("GET", "/repos/{owner}/{repo}/pulls/{pull_number}",
            << Param("owner", Str("acme")), Param("repo", Str(RepoName(repo))),
               Param("pull_number", Num(number)) >>,
            DetailsTtlDays)

\* fetchPullRequestReviews: the request for one page of a PR's reviews
ReviewsRequest(repo, number, page) ==
    Request("GET", "/repos/{owner}/{repo}/pulls/{pull_number}/reviews",
            << Param("owner", Str("acme")), Param("repo", Str(RepoName(repo))),
               Param("pull_number", Num(number)), Param("per_page", Num(PerPage)),
               Param("page", Num(page)) >>,
            ReviewsTtlDays)

RunPages == 1..MaxRunPages
RepoPages == [page \in RunPages |-> ReposRequest(page)]
PullPages(repo) == [page \in RunPages |-> RepoPullsRequest(repo, page)]
ReviewPages(repo, number) == [page \in RunPages |-> ReviewsRequest(repo, number, page)]

\* the repositories and the PRs of each that the cached pages can name
RunIds == UNION {{b.items[n] : n \in 1..Len(b.items)} : b \in Bodies}

\* the requests of a run, by page: the first pages and the PR details, and
\* the pages after the first
FirstRequests ==
    {ReposRequest(1)}
    \cup {RepoPullsRequest(repo, 1) : repo \in RunIds}
    \cup {DetailsRequest(repo, number) : repo \in RunIds, number \in RunIds}
    \cup {ReviewsRequest(repo, number, 1) : repo \in RunIds, number \in RunIds}
LaterRequests ==
    {ReposRequest(page) : page \in RunPages \ {1}}
    \cup {RepoPullsRequest(repo, page) : repo \in RunIds, page \in RunPages \ {1}}
    \cup {ReviewsRequest(repo, number, page) :
             repo \in RunIds, number \in RunIds, page \in RunPages \ {1}}
RunKeys == {KeyOf(req) : req \in FirstRequests \cup LaterRequests}

\* lines 82-93 with forceCache set: the cached body, or the forced-cache-miss
\* error; cachedRequest settles with no await of a live call
ForcedRequest(req) ==
    LET cachedData == getCachedData(KeyOf(req), req.ttlDays, TRUE) IN
    IF Truthy(cachedData) THEN DataResponse(cachedData)
    ELSE ErrorResponse(ForcedMissError)

RECURSIVE ForcedPages(_)
\* a paginator's loop over the requests of pages 1, 2, ... in forced mode
\* (fetchRepositories lines 460-526, fetchAllPullRequests lines 540-592 with
\* every PR within the window, fetchPullRequestReviews lines 871-916): the
\* items of the pages up to the first empty page, or up to the first request
\* that throws, whose error the loop's catch logs
ForcedPages(reqs) ==
    IF Len(reqs) = 0 THEN <<>>
    ELSE LET response == ForcedRequest(reqs[1]) IN
         IF response.kind = "error" THEN <<>>
         ELSE IF Len(response.data.items) = 0 THEN <<>>
         ELSE response.data.items \o ForcedPages(Tail(reqs))

ForcedMissesNone(reqs) == {}

RECURSIVE ForcedMisses(_)
\* the requests of that loop that threw
ForcedMisses(reqs) ==
    IF Len(reqs) = 0 THEN {}
    ELSE LET response == ForcedRequest(reqs[1]) IN
         IF response.kind = "error" THEN {reqs[1]}
         ELSE IF Len(response.data.items) = 0 THEN {}
         ELSE ForcedMisses(Tail(reqs))

fetchPullRequestDetailsSwallows(response) ==
    IF response.kind = "error" THEN DataResponse(Arr(<<>>)) ELSE response

\* lines 687-774: the body of the response is formatted and returned; an
\* error of cachedRequest is logged and thrown again
fetchPullRequestDetails(response) ==
    IF response.kind = "error" THEN ErrorResponse(response.error)
    ELSE DataResponse(response.data)

MainLoopWritingEach(s, r) ==
    IF r <= Len(s.repositories)
    THEN [s EXCEPT !.pc = "awaitPulls", !.r = r, !.written = r > 1]
    ELSE [s EXCEPT !.pc = "done", !.r = r, !.written = TRUE]

\* lines 380-384 and 420-431: the loop over the repositories: the call of
\* fetchAllPullRequests for the next one or, after the last, the writing of
\* the output file
MainLoop(s, r) ==
    IF r <= Len(s.repositories)
    THEN [s EXCEPT !.pc = "awaitPulls", !.r = r]
    ELSE [s EXCEPT !.pc = "done", !.r = r, !.written = TRUE]

\* lines 312-355: the arguments are valid and --force-cache is among them;
\* fetchRepositories is called
main ==
    /\ run.pc = "idle" /\ forceCache
    /\ run' = [run EXCEPT !.pc = "awaitRepos"]
    /\ UNCHANGED <<forceCache, now, cache, calls, liveRequests, fc, kreq, kkey, pb, pl, pg, ppr, cmt, snap, boot, rv>>

\* lines 355-384: fetchRepositories returned
FetchRepositoriesReturns ==
    /\ run.pc = "awaitRepos"
    /\ run' = MainLoop([run EXCEPT !.repositories = ForcedPages(RepoPages),
                                   !.misses = @ \cup ForcedMisses(RepoPages)], 1)
    /\ UNCHANGED <<forceCache, now, cache, calls, liveRequests, fc, kreq, kkey, pb, pl, pg, ppr, cmt, snap, boot, rv>>

\* lines 384-396: fetchAllPullRequests returned; a repository with no PR is
\* skipped, the PRs of any other are given to processInBatches
FetchAllPullRequestsReturns ==
    /\ run.pc = "awaitPulls"
    /\ LET repo == run.repositories[run.r]
           pullRequests == ForcedPages(PullPages(repo))
           s == [run EXCEPT !.misses = @ \cup ForcedMisses(PullPages(repo))]
       IN  IF Len(pullRequests) = 0
           THEN /\ run' = MainLoop(s, run.r + 1)
                /\ UNCHANGED pb
           ELSE /\ run' = [s EXCEPT !.pc = "awaitBatch"]
                /\ pb' = BatchLoop(PbIdle(pullRequests, BatchSize), 0)
    /\ UNCHANGED <<forceCache, now, cache, calls, liveRequests, fc, kreq, kkey, pl, pg, ppr, cmt, snap, boot, rv>>

\* lines 1096-1122: processPR for the j-th PR settles. The error of
\* fetchPullRequestDetails is logged and thrown again; the fetchers of the
\* sub-resources catch the errors of their requests (lines 856-859, 912-915,
\* 976-979, 1027-1030, 1089-1092) and return what they have, so with the
\* details at hand processPR resolves. The reviews stand for the four
\* sub-resources.
ProcessPRSettles(j) ==
    /\ run.pc = "awaitBatch" /\ pb.worker[j].st = "running"
    /\ LET repo == run.repositories[run.r]
           number == pb.items[j]
           detailedPR == fetchPullRequestDetails(ForcedRequest(DetailsRequest(repo, number)))
           reviews == ForcedPages(ReviewPages(repo, number))
       IN  IF detailedPR.kind = "error"
           THEN /\ pb' = AwaitPromiseAll([pb EXCEPT !.worker[j] = Rejected,
                                                    !.done = Append(@, j)])
                /\ run' = [run EXCEPT !.misses = @ \cup {DetailsRequest(repo, number)}]
           ELSE /\ pb' = AwaitPromiseAll(
                           [pb EXCEPT !.worker[j] =
                                          Fulfilled([item |-> number, v |-> Len(reviews)]),
                                      !.done = Append(@, j)])
                /\ run' = [run EXCEPT !.misses =
                               @ \cup ForcedMisses(<<DetailsRequest(repo, number)>>)
                                 \cup ForcedMisses(ReviewPages(repo, number))]
    /\ UNCHANGED <<forceCache, now, cache, calls, liveRequests, fc, kreq, kkey, pl, pg, ppr, cmt, snap, boot, rv>>

\* lines 394-417: processInBatches returned; the repository is recorded and
\* the loop goes on
ProcessInBatchesReturns ==
    /\ run.pc = "awaitBatch" /\ pb.pc = "returned"
    /\ run' = MainLoop([run EXCEPT !.recorded = Append(@, run.repositories[run.r])],
                       run.r + 1)
    /\ UNCHANGED <<forceCache, now, cache, calls, liveRequests, fc, kreq, kkey, pb, pl, pg, ppr, cmt, snap, boot, rv>>

\* lines 448-451: processInBatches threw; main's catch logs the error and
\* calls process.exit(1), which ends the workers still running
ProcessInBatchesThrows ==
    /\ run.pc = "awaitBatch" /\ pb.pc = "thrown"
    /\ run' = [run EXCEPT !.pc = "exited", !.exitCode = 1]
    /\ UNCHANGED <<forceCache, now, cache, calls, liveRequests, fc, kreq, kkey, pb, pl, pg, ppr, cmt, snap, boot, rv>>

CachedFile(body) == FileOf(JSONStringifyPretty(body), 0, 1)

\* A run in forced-cache mode over a cache left by earlier runs: any of the
\* first pages and of the PR details may be missing; the first page of a
\* repository's PRs may be there and empty (the repository had no PR); the
\* pages after the first are there, and empty.
InitRun ==
    /\ forceCache = TRUE
    /\ now = 0
    /\ cache \in {[k \in RunKeys |->
                      IF k \in empty THEN CachedFile(Arr(<<>>))
                      ELSE IF k \in present THEN CachedFile(Arr(<<1, 2>>))
                      ELSE IF k \in {KeyOf(req) : req \in LaterRequests}
                      THEN CachedFile(Arr(<<>>))
                      ELSE NoFile] :
                  present \in SUBSET {KeyOf(req) : req \in FirstRequests},
                  empty \in SUBSET {KeyOf(RepoPullsRequest(repo, 1)) :
                                       repo \in RunIds}}
    /\ calls = [c \in Calls |-> IdleCall]
    /\ liveRequests = 0
    /\ fc = FcIdle
    /\ kreq = <<KIdle, KIdle>>
    /\ kkey = <<>>
    /\ pb = PbIdle(<<>>, 1)
    /\ pl = PlIdle(<<>>, 1)
    /\ run = RunIdle
    /\ pg = PgIdle(NoPaginator, <<>>)
    /\ ppr = PprIdle(NoPlan)
    /\ cmt = CmtIdle("", <<>>, <<>>, <<>>)
    /\ snap = SnapIdle(<<>>)
    /\ boot = BootIdle(<<>>, FALSE, FALSE)
    /\ rv = RvIdle(<<>>)

NextRun ==
    \/ main
    \/ FetchRepositoriesReturns
    \/ FetchAllPullRequestsReturns
    \/ \E j \in 1..Len(pb.items) : ProcessPRSettles(j)
    \/ ProcessInBatchesReturns
    \/ ProcessInBatchesThrows

SpecRun == InitRun /\ [][NextRun]_vars

---------------------------------------------------------------------------
(* The list paginators: one loop over the pages of a resource *)

\* an item of a list response: its id, its user (NoUser when the payload has
\* user: null) and its body
NoUser == "null"
SomeUser == "octocat"
RawItem(id, user, body) == [id |-> id, user |-> user, body |-> body]

\* the paginators of the model: the repositories, reviews and line-comments
\* loops of the cached pipeline, and the reviews loop of the uncached one
Paginator(file, fn) == [file |-> file, fn |-> fn]
Paginators ==
    {Paginator("part_000", "fetchRepositories"),
     Paginator("part_000", "fetchPullRequestReviews"),
     Paginator("part_000", "fetchPullRequestComments"),
     Paginator("build_json.ts", "fetchPullRequestReviews")}

\* whether the page request sits in a try whose catch ends the loop:
\* part_000 lines 461/522, 872/912, 930/976; build_json.ts line 720 awaits
\* the request outside any try
CatchesPageError(p) == p.file = "part_000"

\* .filter(item => item.user !== null), lines 894 and 951
WithUserAll(data) == data
WithUser(data) == SelectSeq(data, LAMBDA item : item.user # NoUser)

\* what the paginator pushes for a page: fetchRepositories pushes every
\* item (lines 479-516), the others the items with a user
FormatPage(p, data) ==
    IF p.fn = "fetchRepositories" THEN data ELSE WithUser(data)

\* what the API lists for the resource, and its page `page`
ApiRows ==
    UNION {{[n \in 1..len |-> RawItem(n, users[n], "ok")] :
               users \in [1..len -> {NoUser, SomeUser}]} : len \in 0..MaxRows}
RowsPage(rows, page) ==
    SubSeq(rows, Min((page - 1) * RowsPerPage + 1, Len(rows) + 1),
           Min(page * RowsPerPage, Len(rows)))

\* page++, lines 511, 910
NextPageSkipping(page) == page + 2
NextPage(page) == page + 1

\* the while loop, from its test to the next await or to the return
\* (lines 871-918)
PagesLoop(s) ==
    IF s.hasMorePages
    THEN [s EXCEPT !.pc = "awaitPage",
                   !.requested = Append(s.requested, s.page),
                   !.inflight = s.inflight \cup {s.page}]
    ELSE [s EXCEPT !.pc = "returned", !.ret = s.items]

\* the call of the paginator
Paginate ==
    /\ pg.pc = "idle"
    /\ pg' = PagesLoop(pg)
    /\ UNCHANGED <<forceCache, now, cache, calls, liveRequests, fc, kreq, kkey,
                   pb, pl, run, ppr, cmt, snap, boot, rv>>

\* the page request resolved with page `page` of the listing (lines 889-911)
PageReturned ==
    /\ pg.pc = "awaitPage"
    /\ LET data == RowsPage(pg.rows, pg.page)
           s == [pg EXCEPT !.inflight = pg.inflight \ {pg.page}]
       IN  pg' = IF Len(data) = 0
                 THEN PagesLoop([s EXCEPT !.hasMorePages = FALSE])
                 ELSE PagesLoop([s EXCEPT
                          !.items = s.items \o FormatPage(s.paginator, data),
                          !.page = NextPage(s.page)])
    /\ UNCHANGED <<forceCache, now, cache, calls, liveRequests, fc, kreq, kkey,
                   pb, pl, run, ppr, cmt, snap, boot, rv>>

\* the page request was rejected: the catch ends the loop (lines 912-915),
\* or, with no try around the await, the paginator rejects
PageThrown ==
    /\ pg.pc = "awaitPage"
    /\ LET s == [pg EXCEPT !.inflight = pg.inflight \ {pg.page},
                           !.failed = pg.page]
       IN  pg' = IF CatchesPageError(s.paginator)
                 THEN PagesLoop([s EXCEPT !.hasMorePages = FALSE])
                 ELSE [s EXCEPT !.pc = "thrown"]
    /\ UNCHANGED <<forceCache, now, cache, calls, liveRequests, fc, kreq, kkey,
                   pb, pl, run, ppr, cmt, snap, boot, rv>>

InitPages ==
    /\ pg \in {PgIdle(p, rows) : p \in Paginators, rows \in ApiRows}
    /\ forceCache = FALSE
    /\ now = 0
    /\ cache = [k \in AllKeys |-> NoFile]
    /\ calls = [c \in Calls |-> IdleCall]
    /\ liveRequests = 0
    /\ fc = FcIdle
    /\ kreq = <<KIdle, KIdle>>
    /\ kkey = <<>>
    /\ pb = PbIdle(<<>>, 1)
    /\ pl = PlIdle(<<>>, 1)
    /\ run = RunIdle
    /\ ppr = PprIdle(NoPlan)
    /\ cmt = CmtIdle("", <<>>, <<>>, <<>>)
    /\ snap = SnapIdle(<<>>)
    /\ boot = BootIdle(<<>>, FALSE, FALSE)
    /\ rv = RvIdle(<<>>)

NextPages ==
    \/ Paginate
    \/ PageReturned
    \/ PageThrown

SpecPages == InitPages /\ [][NextPages]_vars

---------------------------------------------------------------------------
(* processPR *)

\* the four fetchers of a PR, in the order of the array given to
\* Promise.all (lines 1105-1108)
Fetchers == <<"commits", "reviews", "comments", "review_requests">>
FetcherIds == 1..Len(Fetchers)

\* what a fetcher can resolve with: no item or one item (none of the four
\* rejects: each catches its own failures, lines 856, 912, 976, 1027, 1089)
FetcherResults == {<<>>, <<1>>}
Plans == [FetcherIds -> FetcherResults]

\* the record fetchPullRequestDetails resolves with (lines 706-768): the
\* four lists start empty
PrNumber == 1
Details ==
    [number |-> PrNumber, commits |-> <<>>, reviews |-> <<>>,
     comments |-> <<>>, review_requests |-> <<>>]

\* lines 1097-1101: processPR up to its first await
processPRCallStartingAll(s) ==
    [s EXCEPT !.pc = "awaitDetails",
              !.issued = <<"details">> \o Fetchers]
processPRCall(s) ==
    [s EXCEPT !.pc = "awaitDetails", !.issued = <<"details">>]

\* what await Promise.all(...) evaluates to once the four have resolved:
\* the values in the order of the array
AllFetchedInSettleOrder(s) == [k \in FetcherIds |-> s.value[s.done[k]]]
AllFetched(s) == [k \in FetcherIds |-> s.value[k]]

\* lines 1104-1117: the destructuring of the array and the four assignments
Assemble(detailedPR, all) ==
    [detailedPR EXCEPT !.commits = all[1], !.reviews = all[2],
                       !.comments = all[3], !.review_requests = all[4]]

processPR ==
    /\ ppr.pc = "idle"
    /\ ppr' = processPRCall(ppr)
    /\ UNCHANGED <<forceCache, now, cache, calls, liveRequests, fc, kreq, kkey,
                   pb, pl, run, pg, cmt, snap, boot, rv>>

\* lines 1101-1109: the details arrived; the four fetchers are called, each
\* running to its first await, and Promise.all is awaited
DetailsResolves ==
    /\ ppr.pc = "awaitDetails"
    /\ ppr' = [ppr EXCEPT !.pc = "awaitAll", !.detailedPR = Details,
                          !.issued = ppr.issued \o Fetchers]
    /\ UNCHANGED <<forceCache, now, cache, calls, liveRequests, fc, kreq, kkey,
                   pb, pl, run, pg, cmt, snap, boot, rv>>

\* lines 1118-1121: fetchPullRequestDetails rejected; the catch logs and
\* rethrows
DetailsRejects ==
    /\ ppr.pc = "awaitDetails"
    /\ ppr' = [ppr EXCEPT !.pc = "thrown"]
    /\ UNCHANGED <<forceCache, now, cache, calls, liveRequests, fc, kreq, kkey,
                   pb, pl, run, pg, cmt, snap, boot, rv>>

\* fetcher k resolved; with the last of the four Promise.all resolves and
\* processPR runs to its return (lines 1104-1117)
FetcherResolves(k) ==
    /\ ppr.pc = "awaitAll"
    /\ \A n \in 1..Len(ppr.done) : ppr.done[n] # k
    /\ LET s == [ppr EXCEPT !.value[k] = ppr.plan[k],
                            !.done = Append(ppr.done, k)]
       IN  ppr' = IF Len(s.done) = Len(Fetchers)
                  THEN [s EXCEPT !.pc = "returned",
                                 !.ret = Assemble(s.detailedPR, AllFetched(s))]
                  ELSE s
    /\ UNCHANGED <<forceCache, now, cache, calls, liveRequests, fc, kreq, kkey,
                   pb, pl, run, pg, cmt, snap, boot, rv>>

InitPR ==
    /\ ppr \in {PprIdle(plan) : plan \in Plans}
    /\ forceCache = FALSE
    /\ now = 0
    /\ cache = [k \in AllKeys |-> NoFile]
    /\ calls = [c \in Calls |-> IdleCall]
    /\ liveRequests = 0
    /\ fc = FcIdle
    /\ kreq = <<KIdle, KIdle>>
    /\ kkey = <<>>
    /\ pb = PbIdle(<<>>, 1)
    /\ pl = PlIdle(<<>>, 1)
    /\ run = RunIdle
    /\ pg = PgIdle(NoPaginator, <<>>)
    /\ cmt = CmtIdle("", <<>>, <<>>, <<>>)
    /\ snap = SnapIdle(<<>>)
    /\ boot = BootIdle(<<>>, FALSE, FALSE)
    /\ rv = RvIdle(<<>>)

NextPR ==
    \/ processPR
    \/ DetailsResolves
    \/ DetailsRejects
    \/ \E k \in FetcherIds : FetcherResolves(k)

SpecPR == InitPR /\ [][NextPR]_vars

\* processPR over fetchers whose requests fail

\* the items every fetcher finds on the API in this study, one per page
FullPlan == [k \in FetcherIds |-> <<1, 2>>]

\* failsAt[k] is the page of fetcher k whose request fails terminally
\* (retries exhausted, or any other error), 0 for none
FailurePatterns == [FetcherIds -> 0..MaxFailPage]

\* what fetcher k settles with. The paginators (commits, reviews, comments)
\* ask page after page while pages are full; the catch around the page
\* request ends the loop and the items of the earlier pages are returned
\* (lines 856-859, 912-915, 976-979, 1027-1030). fetchReviewRequests makes
\* one request and returns [] from its catch (1089-1092)
Settled(rejected, value) == [rejected |-> rejected, value |-> value]
FetcherOutcomeRethrowing(k, items, failPage) ==
    IF failPage = 0 \/ failPage > Len(items) + 1 THEN Settled(FALSE, items)
    ELSE Settled(TRUE, <<>>)
FetcherOutcome(k, items, failPage) ==
    IF Fetchers[k] = "review_requests"
    THEN Settled(FALSE, IF failPage = 0 THEN items ELSE <<>>)
    ELSE IF failPage = 0 \/ failPage > Len(items) + 1
         THEN Settled(FALSE, items)
         ELSE Settled(FALSE, SubSeq(items, 1, failPage - 1))

\* fetcher k settled. A rejection rejects Promise.all at once and the catch
\* of processPR rethrows it (1118-1121); with the last of four resolutions
\* processPR runs to its return (1104-1117)
FetcherSettles(k) ==
    /\ ppr.pc = "awaitAll"
    /\ \A n \in 1..Len(ppr.done) : ppr.done[n] # k
    /\ LET outcome == FetcherOutcome(k, ppr.plan[k], ppr.failsAt[k])
           s == [ppr EXCEPT !.value[k] = outcome.value,
                            !.done = Append(ppr.done, k)]
       IN  ppr' = IF outcome.rejected
                  THEN [s EXCEPT !.pc = "thrown"]
                  ELSE IF Len(s.done) = Len(Fetchers)
                  THEN [s EXCEPT !.pc = "returned",
                                 !.ret = Assemble(s.detailedPR, AllFetched(s))]
                  ELSE s
    /\ UNCHANGED <<forceCache, now, cache, calls, liveRequests, fc, kreq, kkey,
                   pb, pl, run, pg, cmt, snap, boot, rv>>

InitPRFailures ==
    /\ ppr \in {[PprIdle(FullPlan) EXCEPT !.failsAt = failsAt] :
                   failsAt \in FailurePatterns}
    /\ forceCache = FALSE
    /\ now = 0
    /\ cache = [k \in AllKeys |-> NoFile]
    /\ calls = [c \in Calls |-> IdleCall]
    /\ liveRequests = 0
    /\ fc = FcIdle
    /\ kreq = <<KIdle, KIdle>>
    /\ kkey = <<>>
    /\ pb = PbIdle(<<>>, 1)
    /\ pl = PlIdle(<<>>, 1)
    /\ run = RunIdle
    /\ pg = PgIdle(NoPaginator, <<>>)
    /\ cmt = CmtIdle("", <<>>, <<>>, <<>>)
    /\ snap = SnapIdle(<<>>)
    /\ boot = BootIdle(<<>>, FALSE, FALSE)
    /\ rv = RvIdle(<<>>)

NextPRFailures ==
    \/ processPR
    \/ DetailsResolves
    \/ DetailsRejects
    \/ \E k \in FetcherIds : FetcherSettles(k)

SpecPRFailures == InitPRFailures /\ [][NextPRFailures]_vars

---------------------------------------------------------------------------
(* fetchPullRequestComments *)

\* the body of a review as the API gives it: null, empty, blank, or text
NullBody == "<null>"
ReviewBodies == {NullBody, "", " ", "ok"}

\* String.prototype.trim on the bodies of the model
Trim(body) == IF body = " " THEN "" ELSE body

\* the test a review body passes to become a comment:
\*   part_000 line 1036:      review.body !== null && review.body !== ''
\*   build_json.ts line 859:  review.body && review.body.trim() !== ''
HasBodyTextAlways(file, body) == TRUE
HasBodyText(file, body) ==
    IF file = "part_000"
    THEN body # NullBody /\ body # ""
    ELSE (body # NullBody /\ body # "") /\ Trim(body) # ""

\* the ids of the three listings: the API numbers the items of each
\* listing; the listings either share one numbering (ids never coincide) or
\* have one each (ids can coincide). base[s] is the id before the first id
\* of listing s.
IdBases ==
    {<<0, MaxComments, 2 * MaxComments>>, <<0, 0, 0>>}

\* the raw listings: comments with or without a user; reviews with a user
\* and any body, or without a user
RawComments(base) ==
    UNION {{[n \in 1..len |-> RawItem(base + n, users[n], "ok")] :
               users \in [1..len -> {NoUser, SomeUser}]} : len \in 0..MaxComments}
ReviewKinds ==
    {<<SomeUser, body>> : body \in ReviewBodies} \cup {<<NoUser, "ok">>}
RawReviews(base) ==
    UNION {{[n \in 1..len |-> RawItem(base + n, kinds[n][1], kinds[n][2])] :
               kinds \in [1..len -> ReviewKinds]} : len \in 0..MaxReviews}

\* the .map of lines 952-972, 1009-1023 and 1037-1045: the Comment built from
\* a raw comment or from a review
FormatComment(item, type) ==
    [id |-> item.id, user |-> item.user, body |-> item.body,
     comment_type |-> type]
FormatComments(data, type) ==
    [n \in 1..Len(data) |-> FormatComment(data[n], type)]

\* lines 1035-1045: the reviews with body text, as comments
ReviewComments(file, reviews) ==
    FormatComments(SelectSeq(reviews, LAMBDA r : HasBodyText(file, r.body)),
                   "pr_review")

\* comments.push(...), lines 975, 1026 and 1047
PushAllFront(comments, more) == more \o comments
PushAll(comments, more) == comments \o more

\* lines 922-948: the call, up to the first request for line comments
fetchPullRequestComments ==
    /\ cmt.pc = "idle" \/ (cmt.pc = "returned" /\ cmt.runs = 1)
    /\ cmt' = [cmt EXCEPT !.pc = "awaitLine", !.comments = <<>>,
                          !.runs = cmt.runs + 1]
    /\ UNCHANGED <<forceCache, now, cache, calls, liveRequests, fc, kreq, kkey,
                   pb, pl, run, pg, ppr, snap, boot, rv>>

\* lines 928-981: the loop over the pages of line comments has delivered
\* the listing; the items with a user are pushed as pr_line comments
LineCommentsFetched ==
    /\ cmt.pc = "awaitLine"
    /\ cmt' = [cmt EXCEPT
                  !.pc = "awaitIssue",
                  !.comments = PushAll(cmt.comments,
                                   FormatComments(WithUser(cmt.line), "pr_line"))]
    /\ UNCHANGED <<forceCache, now, cache, calls, liveRequests, fc, kreq, kkey,
                   pb, pl, run, pg, ppr, snap, boot, rv>>

\* lines 983-1031: the same for the issue comments
IssueCommentsFetched ==
    /\ cmt.pc = "awaitIssue"
    /\ cmt' = [cmt EXCEPT
                  !.pc = "awaitReviews",
                  !.comments = PushAll(cmt.comments,
                                   FormatComments(WithUser(cmt.issue), "issue"))]
    /\ UNCHANGED <<forceCache, now, cache, calls, liveRequests, fc, kreq, kkey,
                   pb, pl, run, pg, ppr, snap, boot, rv>>

\* lines 1033-1049: fetchPullRequestReviews resolved with the reviews that
\* have a user; those with body text are pushed as pr_review comments and
\* the list is returned
ReviewsFetched ==
    /\ cmt.pc = "awaitReviews"
    /\ LET reviews == WithUser(cmt.reviews)
           comments == PushAll(cmt.comments, ReviewComments(cmt.file, reviews))
       IN  cmt' = [cmt EXCEPT !.pc = "returned", !.comments = comments,
                              !.ret = comments,
                              !.first = IF cmt.runs = 1 THEN comments
                                        ELSE cmt.first]
    /\ UNCHANGED <<forceCache, now, cache, calls, liveRequests, fc, kreq, kkey,
                   pb, pl, run, pg, ppr, snap, boot, rv>>

InitComments ==
    /\ cmt \in {CmtIdle(file, line, issue, reviews) :
                   file \in {"part_000", "build_json.ts"},
                   line \in UNION {RawComments(base[1]) : base \in IdBases},
                   issue \in UNION {RawComments(base[2]) : base \in IdBases},
                   reviews \in UNION {RawReviews(base[3]) : base \in IdBases}}
    /\ forceCache = FALSE
    /\ now = 0
    /\ cache = [k \in AllKeys |-> NoFile]
    /\ calls = [c \in Calls |-> IdleCall]
    /\ liveRequests = 0
    /\ fc = FcIdle
    /\ kreq = <<KIdle, KIdle>>
    /\ kkey = <<>>
    /\ pb = PbIdle(<<>>, 1)
    /\ pl = PlIdle(<<>>, 1)
    /\ run = RunIdle
    /\ pg = PgIdle(NoPaginator, <<>>)
    /\ ppr = PprIdle(NoPlan)
    /\ snap = SnapIdle(<<>>)
    /\ boot = BootIdle(<<>>, FALSE, FALSE)
    /\ rv = RvIdle(<<>>)

NextComments ==
    \/ fetchPullRequestComments
    \/ LineCommentsFetched
    \/ IssueCommentsFetched
    \/ ReviewsFetched

SpecComments == InitComments /\ [][NextComments]_vars

---------------------------------------------------------------------------
(* main: the snapshot and its summary *)

\* a list of n items
ListOf(n) == [i \in 1..n |-> i]

\* the user of a PR payload: null, or an object with login and id
NullPrUser == [isNull |-> TRUE, login |-> "", id |-> 0]
PrUser == [isNull |-> FALSE, login |-> "octocat", id |-> 583231]

\* merged_at of a PR payload: null or a timestamp
NotMerged == "null"
MergedAt == "2024-05-01T10:00:00Z"

\* what the API holds for one PR: the payload of the details request
\* (user, state, merged_at, additions, deletions, changed_files) and the
\* numbers of its commits, reviews, comments and review requests
WirePR(user, state, merged_at, counts) ==
    [user |-> user, state |-> state, merged_at |-> merged_at,
     commits |-> counts[1], reviews |-> counts[2], comments |-> counts[3],
     review_requests |-> counts[4], additions |-> counts[5],
     deletions |-> counts[6], changed_files |-> counts[7]]

\* the states of a PR on the API: open, closed without merge, merged
\* (a merged PR is closed and has a merge timestamp)
WireStates ==
    {<<"open", NotMerged>>, <<"closed", NotMerged>>, <<"closed", MergedAt>>}
WireCounts == {<<1, 1, 0, 1, 5, 2, 1>>, <<2, 0, 3, 0, 0, 1, 4>>}
WirePRs ==
    {WirePR(user, st[1], st[2], counts) :
        user \in {NullPrUser, PrUser}, st \in WireStates, counts \in WireCounts}
WireLists(max) == UNION {[1..len -> WirePRs] : len \in 0..max}

\* lines 709-710: login: data.user?.login || 'unknown', id: data.user?.id || 0
FormatUserAsIs(user) == [login |-> user.login, id |-> user.id]
FormatUser(user) ==
    [login |-> IF user.isNull \/ user.login = "" THEN "unknown" ELSE user.login,
     id |-> IF user.isNull \/ user.id = 0 THEN 0 ELSE user.id]

\* the PullRequest processPR resolves with for the number-th PR: the
\* details formatted (lines 704-768) and the four lists assigned (1112-1115)
DetailedPR(number, wire) ==
    [number |-> number, user |-> FormatUser(wire.user), state |-> wire.state,
     merged_at |-> wire.merged_at, commits |-> ListOf(wire.commits),
     reviews |-> ListOf(wire.reviews), comments |-> ListOf(wire.comments),
     review_requests |-> ListOf(wire.review_requests),
     additions |-> wire.additions, deletions |-> wire.deletions,
     changed_files |-> wire.changed_files]

\* lines 384-396: what processInBatches resolves with for a repository
DetailedPRs(wires) == [n \in 1..Len(wires) |-> DetailedPR(n, wires[n])]

\* the reduce and filter calls of lines 405-417
RECURSIVE SumOfLengths(_, _)
SumOfLengths(prs, field) ==
    IF Len(prs) = 0 THEN 0
    ELSE Len(prs[1][field]) + SumOfLengths(Tail(prs), field)
RECURSIVE SumOf(_, _)
SumOf(prs, field) ==
    IF Len(prs) = 0 THEN 0 ELSE prs[1][field] + SumOf(Tail(prs), field)

\* pr.state === 'open'; pr.state === 'closed' && !pr.merged_at;
\* pr.merged_at !== null
IsOpen(pr) == pr.state = "open"
IsClosedWhateverMerge(pr) == pr.state = "closed"
IsClosed(pr) == pr.state = "closed" /\ pr.merged_at = NotMerged
IsMerged(pr) == pr.merged_at # NotMerged

\* lines 405-417: the counters after the PRs of one repository
AddToSummaryFirstOnly(summary, prs) ==
    IF summary.total_pull_requests > 0 THEN summary
    ELSE [summary EXCEPT
             !.total_commits = SumOfLengths(prs, "commits"),
             !.total_comments = SumOfLengths(prs, "comments"),
             !.total_reviews = SumOfLengths(prs, "reviews"),
             !.total_review_requests = SumOfLengths(prs, "review_requests"),
             !.total_additions = SumOf(prs, "additions"),
             !.total_deletions = SumOf(prs, "deletions"),
             !.total_changed_files = SumOf(prs, "changed_files"),
             !.total_pull_requests = Len(prs),
             !.open_pull_requests = Len(SelectSeq(prs, IsOpen)),
             !.closed_pull_requests = Len(SelectSeq(prs, IsClosed)),
             !.merged_pull_requests = Len(SelectSeq(prs, IsMerged))]
AddToSummary(summary, prs) ==
    [summary EXCEPT
        !.total_commits = @ + SumOfLengths(prs, "commits"),
        !.total_comments = @ + SumOfLengths(prs, "comments"),
        !.total_reviews = @ + SumOfLengths(prs, "reviews"),
        !.total_review_requests = @ + SumOfLengths(prs, "review_requests"),
        !.total_additions = @ + SumOf(prs, "additions"),
        !.total_deletions = @ + SumOf(prs, "deletions"),
        !.total_changed_files = @ + SumOf(prs, "changed_files"),
        !.total_pull_requests = @ + Len(prs),
        !.open_pull_requests = @ + Len(SelectSeq(prs, IsOpen)),
        !.closed_pull_requests = @ + Len(SelectSeq(prs, IsClosed)),
        !.merged_pull_requests = @ + Len(SelectSeq(prs, IsMerged))]

\* lines 359-380: the data object is set up and the loop entered
InitializeData ==
    /\ snap.pc = "idle"
    /\ snap' = [snap EXCEPT !.pc = "loop", !.r = 1,
                            !.summary.total_repositories = Len(snap.fetched)]
    /\ UNCHANGED <<forceCache, now, cache, calls, liveRequests, fc, kreq, kkey,
                   pb, pl, run, pg, ppr, cmt, boot, rv>>

\* lines 381-418: one turn of the loop, with every request of it answered:
\* a repository without PRs is skipped; the PRs of any other are recorded
\* under its name and added to the counters
RepositoryProcessed ==
    /\ snap.pc = "loop" /\ snap.r <= Len(snap.fetched)
    /\ LET detailedPRs == DetailedPRs(snap.fetched[snap.r]) IN
       snap' = IF Len(detailedPRs) = 0
               THEN [snap EXCEPT !.r = snap.r + 1]
               ELSE [snap EXCEPT
                        !.r = snap.r + 1,
                        !.repositories =
                            Append(snap.repositories,
                                   [name |-> RepoName(snap.r),
                                    pull_requests |-> detailedPRs]),
                        !.summary = AddToSummary(snap.summary, detailedPRs)]
    /\ UNCHANGED <<forceCache, now, cache, calls, liveRequests, fc, kreq, kkey,
                   pb, pl, run, pg, ppr, cmt, boot, rv>>

\* lines 420-431: after the last repository the output file is written
WriteSnapshot ==
    /\ snap.pc = "loop" /\ snap.r > Len(snap.fetched)
    /\ snap' = [snap EXCEPT !.pc = "done", !.written = TRUE]
    /\ UNCHANGED <<forceCache, now, cache, calls, liveRequests, fc, kreq, kkey,
                   pb, pl, run, pg, ppr, cmt, boot, rv>>

\* an organization of one or two repositories, the second with one PR at most
FetchedOrganizations ==
    {<<first>> : first \in WireLists(MaxSnapshotPRs)}
        \cup {<<first, second>> :
                  first \in WireLists(MaxSnapshotPRs), second \in WireLists(1)}
InitSnapshot ==
    /\ snap \in {SnapIdle(fetched) : fetched \in FetchedOrganizations}
    /\ forceCache = FALSE
    /\ now = 0
    /\ cache = [k \in AllKeys |-> NoFile]
    /\ calls = [c \in Calls |-> IdleCall]
    /\ liveRequests = 0
    /\ fc = FcIdle
    /\ kreq = <<KIdle, KIdle>>
    /\ kkey = <<>>
    /\ pb = PbIdle(<<>>, 1)
    /\ pl = PlIdle(<<>>, 1)
    /\ run = RunIdle
    /\ pg = PgIdle(NoPaginator, <<>>)
    /\ ppr = PprIdle(NoPlan)
    /\ cmt = CmtIdle("", <<>>, <<>>, <<>>)
    /\ boot = BootIdle(<<>>, FALSE, FALSE)
    /\ rv = RvIdle(<<>>)

NextSnapshot ==
    \/ InitializeData
    \/ RepositoryProcessed
    \/ WriteSnapshot

SpecSnapshot == InitSnapshot /\ [][NextSnapshot]_vars

---------------------------------------------------------------------------
(* main: the startup checks *)

\* a command-line word is a sequence of characters
ForceCacheFlag ==
    <<"-", "-", "f", "o", "r", "c", "e", "-", "c", "a", "c", "h", "e">>
DaysWords ==
    {<<"7">>, <<"3", "0">>, <<"0">>, <<"-", "3">>, <<"a", "b">>,
     <<"7", "d">>, <<"1", ".", "5">>, <<" ", "2">>}

\* process.argv.slice(2): nothing, or a first word followed or not by
\* the flag
Argvs ==
    {<<>>, <<ForceCacheFlag>>}
        \cup {<<word>> : word \in DaysWords}
        \cup {<<word, ForceCacheFlag>> : word \in DaysWords}

DigitChars == {"0", "1", "2", "3", "4", "5", "6", "7", "8", "9"}
DigitValue(ch) ==
    CASE ch = "0" -> 0 [] ch = "1" -> 1 [] ch = "2" -> 2 [] ch = "3" -> 3
      [] ch = "4" -> 4 [] ch = "5" -> 5 [] ch = "6" -> 6 [] ch = "7" -> 7
      [] ch = "8" -> 8 [] ch = "9" -> 9

\* the longest prefix of decimal digits of a word, and its value
RECURSIVE DigitPrefix(_)
DigitPrefix(word) ==
    IF Len(word) = 0 \/ Head(word) \notin DigitChars THEN <<>>
    ELSE <<Head(word)>> \o DigitPrefix(Tail(word))
RECURSIVE DecimalValue(_)
DecimalValue(digits) ==
    IF Len(digits) = 0 THEN 0
    ELSE 10 * DecimalValue(SubSeq(digits, 1, Len(digits) - 1))
             + DigitValue(digits[Len(digits)])

RECURSIVE SkipWhitespace(_)
SkipWhitespace(word) ==
    IF Len(word) > 0 /\ Head(word) = " " THEN SkipWhitespace(Tail(word))
    ELSE word

\* parseInt(word, 10): leading whitespace is skipped, a sign is read, then
\* the digits up to the first character that is not one; NaN without a digit
NaN == [nan |-> TRUE, value |-> 0]
ParseInt(word) ==
    LET trimmed == SkipWhitespace(word)
        negative == Len(trimmed) > 0 /\ Head(trimmed) = "-"
        signed == Len(trimmed) > 0 /\ Head(trimmed) \in {"-", "+"}
        digits == DigitPrefix(IF signed THEN Tail(trimmed) ELSE trimmed)
    IN  IF Len(digits) = 0 THEN NaN
        ELSE [nan |-> FALSE,
              value |-> IF negative THEN 0 - DecimalValue(digits)
                        ELSE DecimalValue(digits)]

\* args.includes('--force-cache')
ArgsInclude(args, word) == \E n \in 1..Len(args) : args[n] = word

\* lines 9-21: the module is loaded: the environment is read and the cache
\* directory created if it is absent; main is called at line 1142
ModuleLoaded ==
    /\ boot.pc = "idle"
    /\ boot' = [boot EXCEPT !.pc = "arguments", !.cacheDir = TRUE]
    /\ UNCHANGED <<forceCache, now, cache, calls, liveRequests, fc, kreq, kkey,
                   pb, pl, run, pg, ppr, cmt, snap, rv>>

\* lines 315-331: the process exits with code 1 without arguments, or with
\* a first argument that parseInt reads as NaN or as a number not above 0
CheckArguments ==
    /\ boot.pc = "arguments"
    /\ IF Len(boot.argv) = 0
       THEN boot' = [boot EXCEPT !.pc = "exited", !.exitCode = 1]
       ELSE LET days == ParseInt(boot.argv[1]) IN
            IF days.nan \/ days.value <= 0
            THEN boot' = [boot EXCEPT !.pc = "exited", !.exitCode = 1]
            ELSE boot' = [boot EXCEPT
                             !.pc = "environment", !.days = days.value,
                             !.forceCache = ArgsInclude(boot.argv, ForceCacheFlag)]
    /\ UNCHANGED <<forceCache, now, cache, calls, liveRequests, fc, kreq, kkey,
                   pb, pl, run, pg, ppr, cmt, snap, rv>>

\* lines 333-340: the process exits with code 1 without GH_TOKEN or GH_ORG
CheckEnvironment ==
    /\ boot.pc = "environment"
    /\ boot' = IF ~boot.token \/ ~boot.org
               THEN [boot EXCEPT !.pc = "exited", !.exitCode = 1]
               ELSE [boot EXCEPT !.pc = "fetch"]
    /\ UNCHANGED <<forceCache, now, cache, calls, liveRequests, fc, kreq, kkey,
                   pb, pl, run, pg, ppr, cmt, snap, rv>>

\* lines 355, 506, 82-90 and 113: fetchRepositories asks cachedRequest for
\* the first page: the cache is read, and the API is called on a miss
\* unless the cache is forced
FirstPageRequested ==
    /\ boot.pc = "fetch"
    /\ \E hit \in BOOLEAN :
          boot' = [boot EXCEPT
                      !.pc = "running", !.cacheReads = 1,
                      !.requests = IF hit \/ boot.forceCache THEN 0 ELSE 1]
    /\ UNCHANGED <<forceCache, now, cache, calls, liveRequests, fc, kreq, kkey,
                   pb, pl, run, pg, ppr, cmt, snap, rv>>

InitStartup ==
    /\ boot \in {BootIdle(argv, token, org) :
                    argv \in Argvs, token \in BOOLEAN, org \in BOOLEAN}
    /\ forceCache = FALSE
    /\ now = 0
    /\ cache = [k \in AllKeys |-> NoFile]
    /\ calls = [c \in Calls |-> IdleCall]
    /\ liveRequests = 0
    /\ fc = FcIdle
    /\ kreq = <<KIdle, KIdle>>
    /\ kkey = <<>>
    /\ pb = PbIdle(<<>>, 1)
    /\ pl = PlIdle(<<>>, 1)
    /\ run = RunIdle
    /\ pg = PgIdle(NoPaginator, <<>>)
    /\ ppr = PprIdle(NoPlan)
    /\ cmt = CmtIdle("", <<>>, <<>>, <<>>)
    /\ snap = SnapIdle(<<>>)
    /\ rv = RvIdle(<<>>)

NextStartup ==
    \/ ModuleLoaded
    \/ CheckArguments
    \/ CheckEnvironment
    \/ FirstPageRequested

SpecStartup == InitStartup /\ [][NextStartup]_vars

---------------------------------------------------------------------------
(* The two fetchPullRequestReviews calls of one processPR *)

\* call 1 is the one of processPR's Promise.all (line 1106), call 2 the one
\* inside fetchPullRequestComments (line 1034)
ReviewCalls == {1, 2}

\* lines 888-911: a page has been read; an empty page ends the loop, of any
\* other the reviews with a user are pushed and the next page is asked for
ReviewsPageRead(call, data) ==
    IF Len(data) = 0 THEN [call EXCEPT !.pc = "returned"]
    ELSE [call EXCEPT !.pc = "loop", !.page = NextPage(call.page),
                      !.reviews = call.reviews \o WithUser(data)]

\* lines 871-887 and 82-96: the loop up to its next await on a live request:
\* a page found in the cache is read from it at once
RECURSIVE ReviewsLoop(_, _, _)
ReviewsLoop(call, cached, listing) ==
    IF call.pc = "returned" THEN call
    ELSE IF call.page \in cached
    THEN ReviewsLoop(ReviewsPageRead(call, RowsPage(listing, call.page)),
                     cached, listing)
    ELSE [call EXCEPT !.pc = "awaitPage"]

\* the call: processPR calls the reviews fetcher when it builds the array
\* of Promise.all; fetchPullRequestComments calls it after its two loops
fetchPullRequestReviews(c) ==
    /\ rv.call[c].pc = "idle"
    /\ c = 2 => rv.call[1].pc # "idle"
    /\ rv' = [rv EXCEPT
                 !.call[c] = ReviewsLoop([rv.call[c] EXCEPT !.pc = "loop"],
                                         rv.cached, rv.listing)]
    /\ UNCHANGED <<forceCache, now, cache, calls, liveRequests, fc, kreq, kkey,
                   pb, pl, run, pg, ppr, cmt, snap, boot>>

\* lines 97-101 and 888-911: the live request of call c resolved: the
\* response is saved in the cache and read
ReviewsPageArrives(c) ==
    /\ rv.call[c].pc = "awaitPage"
    /\ LET cached == rv.cached \cup {rv.call[c].page}
           read == ReviewsPageRead(rv.call[c],
                                   RowsPage(rv.listing, rv.call[c].page))
       IN  rv' = [rv EXCEPT !.cached = cached,
                            !.call[c] = ReviewsLoop(read, cached, rv.listing)]
    /\ UNCHANGED <<forceCache, now, cache, calls, liveRequests, fc, kreq, kkey,
                   pb, pl, run, pg, ppr, cmt, snap, boot>>

\* lines 102-136 and 912-915: the request of call c failed for good;
\* nothing is saved, the catch ends the loop and the call returns the
\* reviews of the earlier pages
ReviewsPageFails(c) ==
    /\ rv.call[c].pc = "awaitPage"
    /\ rv' = [rv EXCEPT !.call[c].pc = "returned",
                        !.failures = rv.failures + 1]
    /\ UNCHANGED <<forceCache, now, cache, calls, liveRequests, fc, kreq, kkey,
                   pb, pl, run, pg, ppr, cmt, snap, boot>>

\* the fields of the PullRequest that come from the two calls: reviews
\* (line 1113) and the pr_review comments (lines 1035-1047)
ReviewsOfPR == rv.call[1].reviews
ReviewCommentsOfPR == ReviewComments("part_000", rv.call[2].reviews)

InitTwoReviews ==
    /\ rv \in {RvIdle(listing) : listing \in RawReviews(0)}
    /\ forceCache = FALSE
    /\ now = 0
    /\ cache = [k \in AllKeys |-> NoFile]
    /\ calls = [c \in Calls |-> IdleCall]
    /\ liveRequests = 0
    /\ fc = FcIdle
    /\ kreq = <<KIdle, KIdle>>
    /\ kkey = <<>>
    /\ pb = PbIdle(<<>>, 1)
    /\ pl = PlIdle(<<>>, 1)
    /\ run = RunIdle
    /\ pg = PgIdle(NoPaginator, <<>>)
    /\ ppr = PprIdle(NoPlan)
    /\ cmt = CmtIdle("", <<>>, <<>>, <<>>)
    /\ snap = SnapIdle(<<>>)
    /\ boot = BootIdle(<<>>, FALSE, FALSE)

NextTwoReviews ==
    \/ \E c \in ReviewCalls : fetchPullRequestReviews(c)
    \/ \E c \in ReviewCalls : ReviewsPageArrives(c)
    \/ \E c \in ReviewCalls : ReviewsPageFails(c)

SpecTwoReviews == InitTwoReviews /\ [][NextTwoReviews]_vars

---------------------------------------------------------------------------
(* Properties of the request client *)

\* the TTL a call site gives the request of a key
TtlOfKey(k) ==
    IF k \in ClientKeys THEN PullsTtlDays ELSE CommitsTtlDays

\* the file of key k is a parseable entry within ttlDays, or of any age in
\* forced mode
FreshEntry(k, ttlDays) ==
    /\ cache[k].exists
    /\ Parseable(cache[k].content)
    /\ (forceCache \/ now - cache[k].mtime <= ttlDays)

\* call chain c runs its cache check in this step (a first call or a retry)
ChecksCache(c) ==
    /\ calls[c].pc \in {"idle", "backoff"}
    /\ calls'[c].pc \notin {"idle", "backoff"}

ServedFromCache(c) ==
    /\ calls'[c].pc = "returned"
    /\ calls'[c].result = JSONParse(cache[calls'[c].cacheKey].content)
    /\ calls'[c].live = calls[c].live
    /\ liveRequests' = liveRequests
    /\ cache' = cache

\* C2: a cachedRequest call whose key has an existing, parseable entry within
\* its TTL (of any age in forced mode) returns the cached body and issues no
\* live call
C2_HitReturnsCachedBody ==
    [][\A c \in Calls :
          ChecksCache(c)
          /\ FreshEntry(calls'[c].cacheKey, calls'[c].req.ttlDays)
          => ServedFromCache(c)]_vars

\* a first call served from an entry exactly ttlDays old, outside forced mode
C2_Witness ==
    \E c \in Calls :
        /\ ~forceCache
        /\ calls[c].pc = "returned" /\ calls[c].retryCount = 0 /\ calls[c].live = 0
        /\ liveRequests = 0
        /\ cache[calls[c].cacheKey].ver = 1
        /\ now - cache[calls[c].cacheKey].mtime = calls[c].req.ttlDays
        /\ calls[c].result = JSONParse(cache[calls[c].cacheKey].content)

RateLimitSchedule == <<30000, 60000, 120000>>
QuotaSchedule == <<60000, 120000, 240000>>

OnlyBranch(c, b) == \A i \in 1..Len(calls[c].waits) : calls[c].waits[i].branch = b

IsPrimaryRateLimit(e) ==
    e.status = 403 /\ Includes(e.message, "API rate limit exceeded")
IsQuotaExhaustion(e) == Includes(e.message, "Request quota exhausted")

\* C3: on the primary rate-limit path the waits of one request are 30000,
\* 60000, 120000 ms in this order, a 4th failing attempt throws the 'retries
\* exhausted' error carrying the original message, and no 5th live attempt
\* is made
C3_RateLimitBackoff ==
    \A c \in Calls :
        /\ calls[c].live <= 4
        /\ OnlyBranch(c, "rate") =>
              /\ Len(calls[c].waits) <= 3
              /\ \A i \in 1..Len(calls[c].waits) :
                    calls[c].waits[i].ms = RateLimitSchedule[i]
              /\ ( /\ calls[c].live = 4 /\ calls[c].pc # "live"
                   /\ calls[c].resp.kind = "error"
                   /\ IsPrimaryRateLimit(calls[c].resp.error) )
                 => /\ calls[c].pc = "thrown"
                    /\ calls[c].error.message =
                          <<"Limite de tentativas excedido">>
                              \o calls[c].resp.error.message

\* four rate-limit failures in a row: the three waits, then the terminal error
C3_Witness ==
    \E c \in Calls :
        /\ calls[c].pc = "thrown" /\ calls[c].live = 4
        /\ Len(calls[c].waits) = 3 /\ OnlyBranch(c, "rate")
        /\ IsPrimaryRateLimit(calls[c].resp.error)
        /\ Includes(calls[c].error.message, "Limite de tentativas excedido")

IsQuotaWait(w) == w.branch = "quota"
QuotaWaits(c) == SelectSeq(calls[c].waits, IsQuotaWait)

\* C4 as stated: the waits of the quota path are 60000, 120000, 240000 ms
\* counted from the first quota error, whatever errors preceded it
C4_QuotaBackoffStartsAt60s ==
    \A c \in Calls :
        /\ Len(QuotaWaits(c)) <= 3
        /\ \A j \in 1..Len(QuotaWaits(c)) : QuotaWaits(c)[j].ms = QuotaSchedule[j]

\* C4 amended: the wait before the i-th retry of a request, when a quota
\* error causes it, is 60000 * 2^(i-1) ms, i counting every retry of the
\* request (rate-limit and quota alike), with at most 3 retries in all; a
\* request that met quota errors only waits 60000, 120000, 240000 ms
C4_QuotaBackoffByRetryNumber ==
    \A c \in Calls :
        /\ Len(calls[c].waits) <= 3
        /\ \A i \in 1..Len(calls[c].waits) :
              calls[c].waits[i].branch = "quota"
              => calls[c].waits[i].ms = QuotaSchedule[i]

\* a request that met a rate-limit error first and quota errors after it
C4_Witness ==
    \E c \in Calls :
        /\ Len(calls[c].waits) = 3
        /\ calls[c].waits[1] = Wait(30000, "rate")
        /\ calls[c].waits[2] = Wait(120000, "quota")
        /\ calls[c].waits[3] = Wait(240000, "quota")

\* C5: an error of the live call that is neither a primary rate-limit error
\* nor a quota error is rethrown at once: no wait, no retry, no cache write
C5_OtherErrorsPropagate ==
    [][\A c \in Calls :
          ( /\ calls[c].pc = "live" /\ calls'[c].pc # "live"
            /\ calls'[c].resp.kind = "error"
            /\ ~IsPrimaryRateLimit(calls'[c].resp.error)
            /\ ~IsQuotaExhaustion(calls'[c].resp.error) )
          => /\ calls'[c].pc = "thrown"
             /\ calls'[c].error = calls'[c].resp.error
             /\ calls'[c].waits = calls[c].waits
             /\ calls'[c].live = calls[c].live
             /\ liveRequests' = liveRequests
             /\ cache' = cache]_vars

\* a 500 whose message has the rate-limit phrase, thrown on the first attempt
C5_Witness ==
    \E c \in Calls :
        /\ calls[c].pc = "thrown" /\ calls[c].live = 1 /\ calls[c].waits = <<>>
        /\ calls[c].error = ApiError(500, <<"API rate limit exceeded">>)
        /\ ~cache[calls[c].cacheKey].exists

\* C6: a retry checks the cache before its live call: when another request
\* has written the entry during the backoff wait, the retry returns that
\* body and issues no further live call
C6_RetryRechecksCache ==
    [][\A c \in Calls :
          ( /\ calls[c].pc = "backoff" /\ calls'[c].pc # "backoff"
            /\ cache[calls[c].cacheKey].ver > calls[c].seenVer
            /\ FreshEntry(calls[c].cacheKey, calls[c].req.ttlDays) )
          => ServedFromCache(c)]_vars

\* c failed, backed off, and came back with the body d had written meanwhile
C6_Witness ==
    \E c, d \in Calls :
        /\ c # d
        /\ calls[c].pc = "returned" /\ calls[c].retryCount >= 1
        /\ calls[c].resp.kind = "error" /\ calls[c].live = calls[c].retryCount
        /\ calls[d].pc = "returned" /\ calls[d].wroteSeq = 1
        /\ calls[d].cacheKey = calls[c].cacheKey
        /\ cache[calls[c].cacheKey].ver = 1
        /\ calls[c].result = calls[d].result

\* call chain c replaces the file of its key in this step
Overwrites(c) ==
    /\ calls[c].pc = "live"
    /\ cache'[calls[c].cacheKey] # cache[calls[c].cacheKey]

\* C7 as stated: a parseable entry still within its TTL is never rewritten
C7_EntryImmutableWithinTtl ==
    [][\A k \in AllKeys :
          cache[k].exists /\ Parseable(cache[k].content) /\ cache'[k] # cache[k]
          => now - cache[k].mtime > TtlOfKey(k)]_vars

\* C7 amended: cachedRequest never replaces an entry that was valid when it
\* checked the cache; a parseable entry within its TTL is replaced only by a
\* request whose cache check came before that entry was written
C7_OverwriteOnlyAfterOwnMiss ==
    [][/\ \A k \in AllKeys :
             cache'[k] # cache[k]
             => \E d \in Calls : Overwrites(d) /\ calls[d].cacheKey = k
       /\ \A c \in Calls :
             Overwrites(c) /\ FreshEntry(calls[c].cacheKey, calls[c].req.ttlDays)
             => cache[calls[c].cacheKey].ver > calls[c].seenVer]_vars

\* both calls missed, and the second write replaced the entry the first had
\* just written
C7_Witness ==
    \E c, d \in Calls :
        /\ c # d /\ calls[c].cacheKey = calls[d].cacheKey
        /\ calls[c].wroteSeq = 1 /\ calls[d].wroteSeq = 2
        /\ calls[d].seenVer = 0
        /\ cache[calls[d].cacheKey].ver = 2
        /\ cache[calls[d].cacheKey].mtime = now

\* the calls that returned the body of their own live response and wrote it
\* under key k
Savers(k) ==
    {c \in Calls : calls[c].pc = "returned" /\ calls[c].cacheKey = k
                   /\ calls[c].wroteSeq > 0}

LastSaver(k) == CHOOSE c \in Savers(k) : \A d \in Savers(k) : calls[d].wroteSeq <= calls[c].wroteSeq

\* C8: concurrent calls for one key may all miss, call live and write; each
\* returns the body of its own response, and the entry holds the body of
\* the call that wrote last
C8_LastWriteWins ==
    /\ \A c \in Calls :
          calls[c].pc = "returned" /\ calls[c].resp.kind = "data"
          => calls[c].result = calls[c].resp.data
    /\ \A k \in AllKeys :
          Savers(k) # {}
          => cache[k].content = JSONStringifyPretty(calls[LastSaver(k)].result)

\* two calls missed the absent entry, got different bodies and both wrote
C8_Witness ==
    \E c, d \in Calls :
        /\ c # d /\ calls[c].cacheKey = calls[d].cacheKey
        /\ calls[c].pc = "returned" /\ calls[d].pc = "returned"
        /\ calls[c].seenVer = 0 /\ calls[d].seenVer = 0
        /\ calls[c].live = 1 /\ calls[d].live = 1
        /\ calls[c].wroteSeq = 1 /\ calls[d].wroteSeq = 2
        /\ calls[c].result # calls[d].result
        /\ cache[calls[d].cacheKey].content = JSONStringifyPretty(calls[d].result)

\* call chain c goes to the network in this step
GoesLive(c) ==
    /\ calls'[c].pc = "live"
    /\ calls'[c].live = calls[c].live + 1
    /\ liveRequests' = liveRequests + 1
    /\ cache' = cache

\* C11: a parseable entry written at time T is a hit for a call at exactly
\* T + ttlDays and a miss at any later time; in forced mode an existing
\* entry is a hit at every age
C11_TtlBoundary ==
    [][\A c \in Calls :
          LET k == calls'[c].cacheKey
              T == cache[k].mtime
              ttlDays == calls'[c].req.ttlDays
          IN  ChecksCache(c) /\ cache[k].exists /\ Parseable(cache[k].content)
              => /\ forceCache => ServedFromCache(c)
                 /\ ~forceCache /\ now <= T + ttlDays => ServedFromCache(c)
                 /\ ~forceCache /\ now > T + ttlDays => GoesLive(c)]_vars

\* outside forced mode, a call one day after T + ttlDays went to the network
\* although the entry is there and parseable
C11_Witness ==
    \E c \in Calls :
        LET k == calls[c].cacheKey IN
        /\ ~forceCache
        /\ calls[c].pc = "live" /\ calls[c].retryCount = 0
        /\ cache[k].exists /\ Parseable(cache[k].content) /\ cache[k].ver = 1
        /\ now = cache[k].mtime + calls[c].req.ttlDays + 1

\* the live call of chain c resolves in this step and cachedRequest returns
LiveCallSucceeds(c) ==
    /\ calls[c].pc = "live" /\ calls'[c].pc = "returned"
    /\ calls'[c].resp.kind = "data"

\* the file of key k holds body data, written now
HoldsWrittenNow(files, k, data) ==
    /\ files[k].exists
    /\ files[k].content = JSONStringifyPretty(data)
    /\ files[k].mtime = now

CorruptEntry(k) == cache[k].exists /\ ~Parseable(cache[k].content)

\* call chain c throws the forced-cache-miss error in this step
ThrowsForcedMiss(c) ==
    /\ calls'[c].pc = "thrown"
    /\ calls'[c].error = ForcedMissError
    /\ calls'[c].live = calls[c].live
    /\ liveRequests' = liveRequests
    /\ cache' = cache

\* C13: a cache check that finds an unparseable entry goes on as if the
\* entry were absent: outside forced mode the call goes to the network,
\* whatever the age of the file, and in forced mode it throws the
\* forced-cache-miss error; the file itself is left as it is
C13_CorruptEntryIsAbsent ==
    [][\A c \in Calls :
          ChecksCache(c) /\ CorruptEntry(calls'[c].cacheKey)
          => /\ ~forceCache => GoesLive(c)
             /\ forceCache => ThrowsForcedMiss(c)]_vars

\* outside forced mode, a first call found a corrupt file still within its
\* TTL and went to the network
C13_Witness ==
    \E c \in Calls :
        LET k == calls[c].cacheKey IN
        /\ ~forceCache
        /\ calls[c].pc = "live" /\ calls[c].retryCount = 0 /\ liveRequests = 1
        /\ cache[k].exists /\ cache[k].content = CorruptText
        /\ now - cache[k].mtime <= calls[c].req.ttlDays

---------------------------------------------------------------------------
(* Properties of processInBatches *)

Positions == 1..Len(pb.items)

\* worker a settled before worker b
SettledBefore(a, b) ==
    \E m, n \in 1..Len(pb.done) : m < n /\ pb.done[m] = a /\ pb.done[n] = b

\* C15: the list processInBatches returns has one element per input, the
\* i-th being what the worker of the i-th input resolved with, in whatever
\* order the workers of a chunk settled
C15_BatchOrderPreserved ==
    pb.pc = "returned"
    => /\ pb.ret.kind = "value"
       /\ Len(pb.ret.value) = Len(pb.items)
       /\ \A i \in Positions :
             /\ pb.worker[i].st = "fulfilled"
             /\ pb.ret.value[i] = pb.worker[i].out
             /\ pb.ret.value[i].item = pb.items[i]

\* a returned run in which two workers of one chunk, with different results,
\* settled in the reverse of the input order
C15_Witness ==
    /\ pb.pc = "returned" /\ pb.batchSize >= 2
    /\ \E a, b \in Positions :
          /\ a < b /\ b <= pb.batchSize
          /\ SettledBefore(b, a)
          /\ pb.worker[a].out # pb.worker[b].out
          /\ pb.ret.value[a] = pb.worker[a].out
          /\ pb.ret.value[b] = pb.worker[b].out

\* the workers that have started and not yet settled
InFlight == {j \in Positions : pb.worker[j].st = "running"}

\* C16: at every moment of a run, failed runs included, at most batchSize
\* workers have started and not yet finished
C16_InFlightAtMostBatchSize == Cardinality(InFlight) <= pb.batchSize

\* a run whose list is longer than the batch size, after a worker failed:
\* the other workers of the chunk are still in flight and no other worker
\* was started
C16_Witness ==
    /\ pb.pc = "thrown"
    /\ pb.batchSize >= 2 /\ Len(pb.items) > pb.batchSize
    /\ Cardinality(InFlight) = pb.batchSize - 1
    /\ \E j \in Positions : pb.worker[j].st = "notStarted"

\* no worker of a chunk after the current one has started
LaterChunksNotStarted ==
    \A j \in Positions : j > pb.i + pb.batchSize => pb.worker[j].st = "notStarted"

\* C17 as stated: while a worker is running, no worker of a later chunk has
\* started and processInBatches has not settled (neither returned nor thrown)
C17_SettlesAfterWholeChunk ==
    InFlight # {}
    => /\ pb.pc = "awaitBatch"
       /\ InFlight \subseteq Batch(pb)
       /\ LaterChunksNotStarted

\* C17 amended: while a worker of chunk k is running, no worker of chunk k+1
\* has started and processInBatches has not returned; it may have thrown,
\* though: the first worker of the chunk to fail makes it throw at once, with
\* that worker's error, while the other workers of the chunk are still
\* running
C17_NextChunkAfterWholeChunk ==
    /\ InFlight \subseteq Batch(pb)
    /\ LaterChunksNotStarted
    /\ InFlight # {} => pb.pc \in {"awaitBatch", "thrown"}
    /\ pb.pc = "thrown"
          => /\ pb.ret.kind = "error"
             /\ pb.ret.by \in Batch(pb)
             /\ pb.worker[pb.ret.by].st = "rejected"
             /\ \A j \in Batch(pb) \ {pb.ret.by} :
                   pb.worker[j].st = "rejected" => SettledBefore(pb.ret.by, j)

\* processInBatches threw on the failure of one worker, a second worker of
\* the chunk resolved after that, and a third is still running
C17_Witness ==
    /\ pb.pc = "thrown"
    /\ \E j \in Batch(pb) :
          pb.worker[j].st = "fulfilled" /\ SettledBefore(pb.ret.by, j)
    /\ InFlight # {}

\* worker j fails in this step
Fails(j) == pb.worker[j].st = "running" /\ pb'.worker[j].st = "rejected"

\* C18: the failure of one worker makes processInBatches throw that
\* worker's error; from then on it stays thrown, starts no worker, and the
\* results collected so far are never returned
C18_FailureAbortsBatchRun ==
    [][/\ \A j \in Positions :
             pb.pc = "awaitBatch" /\ Fails(j)
             => pb'.pc = "thrown" /\ pb'.ret = RejectedBy(j)
       /\ pb.pc = "thrown"
             => /\ pb'.pc = "thrown" /\ pb'.ret = pb.ret
                /\ pb'.ret.kind = "error" /\ pb'.ret.value = <<>>
                /\ \A j \in Positions :
                      pb.worker[j].st = "notStarted"
                      => pb'.worker[j].st = "notStarted"]_vars

\* a chunk succeeded and its results were collected, a worker of the next
\* chunk failed, and the chunk after it was never started
C18_Witness ==
    /\ pb.pc = "thrown" /\ pb.ret.kind = "error"
    /\ Len(pb.results) > 0
    /\ InFlight = {}
    /\ \E j \in Positions : pb.worker[j].st = "notStarted"

---------------------------------------------------------------------------
(* Properties of fetchAllPullRequests *)

Range(list) == {list[n] : n \in 1..Len(list)}

\* the items of list that page p of the API holds, in the order of list
OfPage(list, p) ==
    SelectSeq(list, LAMBDA pr : pr \in Range(ApiPage(pl.pulls, p)))

\* the items of page p created at or after the cutoff, in the order of the page
Retained(p) ==
    SelectSeq(ApiPage(pl.pulls, p), LAMBDA pr : ~(pr.created_at < pl.since))

\* page p has items, the last of them created before the cutoff
EndsBeforeCutoff(p) ==
    LET data == ApiPage(pl.pulls, p) IN
    Len(data) > 0 /\ data[Len(data)].created_at < pl.since

\* C19: the pages are requested in increasing order and none is requested
\* after a page whose last item was created before the cutoff D; when the
\* loop ends on such a page, the list holds, and the paginator returns, of
\* that page exactly the items created at or after D
C19_EarlyStopAtCutoff ==
    /\ \A n \in 1..Len(pl.requested) :
          /\ pl.requested[n] = n
          /\ n > 1 => ~EndsBeforeCutoff(n - 1)
    /\ \A p \in Range(pl.requested) :
          EndsBeforeCutoff(p) /\ pl.pc \in {"awaitAll", "done"} /\ pl.stop # "error"
          => /\ pl.stop = "cutoff" /\ pl.page = p
             /\ OfPage(pl.allPullRequests, p) = Retained(p)
             /\ pl.pc = "done" => OfPage(pl.ret, p) = Retained(p)

\* the loop ended on page 2, of which an item created on the very day of the
\* cutoff was kept and a later item dropped
C19_Witness ==
    /\ pl.pc = "done" /\ pl.stop = "cutoff" /\ pl.page = 2
    /\ pl.requested = <<1, 2>>
    /\ \E pr \in Range(pl.ret) :
          pr \in Range(ApiPage(pl.pulls, 2)) /\ pr.created_at = pl.since
    /\ \E pr \in Range(ApiPage(pl.pulls, 2)) : pr \notin Range(pl.ret)

\* the pages cachedRequest returned: every page requested, but the last
\* when the request for it threw
Fetched == Len(pl.requested) - (IF pl.stop = "error" THEN 1 ELSE 0)

RECURSIVE RetainedUpTo(_)
\* the retained items of pages 1..p, in increasing page-number order
RetainedUpTo(p) == IF p = 0 THEN <<>> ELSE RetainedUpTo(p - 1) \o Retained(p)

\* C20: the list the paginator returns is the concatenation, in increasing
\* page-number order, of the retained items of each fetched page
C20_PageOrderPreserved ==
    pl.pc = "done" => pl.ret = RetainedUpTo(Fetched)

\* the number of times pr occurs in list
Occurrences(list, pr) == Cardinality({n \in 1..Len(list) : list[n] = pr})

---------------------------------------------------------------------------
(* Properties of the pipeline in forced-cache mode *)

IsDetailsRequest(req) == req.url = "/repos/{owner}/{repo}/pulls/{pull_number}"

\* C14 as stated: whichever request meets a forced-cache miss, the run is
\* not aborted
C14_ForcedMissConfinedToRequest ==
    run.misses # {} => run.pc # "exited"

\* C14 amended: a forced-cache miss on a repository page, a PR-list page or
\* a sub-resource page ends that pagination only: the run goes on to the
\* other PRs and repositories, records every repository that has PRs and
\* writes its output. A forced-cache miss on the details of a PR aborts the
\* run: main exits with code 1, the repository of that PR is not recorded,
\* the repositories after it are not processed and no output is written.
C14_ForcedMissFatalOnDetailsOnly ==
    /\ run.pc = "exited"
          => /\ run.exitCode = 1 /\ ~run.written
             /\ DetailsRequest(run.repositories[run.r], pb.items[pb.ret.by])
                    \in run.misses
             /\ Len(run.recorded) < run.r
    /\ run.pc = "done"
          => /\ run.exitCode = 0 /\ run.written
             /\ \A req \in run.misses : ~IsDetailsRequest(req)
             /\ run.recorded =
                    SelectSeq(run.repositories,
                              LAMBDA repo : ForcedPages(PullPages(repo)) # <<>>)

\* the only miss of the run is on the details of one PR of the first of two
\* repositories; the other PR of the batch was processed, and the run was
\* aborted before the second repository
C14_Witness ==
    /\ run.pc = "exited" /\ run.r = 1 /\ Len(run.repositories) = 2
    /\ Cardinality(run.misses) = 1
    /\ \E j \in 1..Len(pb.items) : pb.worker[j].st = "fulfilled"


\* C1: in a run with forced-cache mode on, no live request is ever issued
C1_ForcedModeIssuesNoLiveRequest == forceCache => liveRequests = 0

---------------------------------------------------------------------------
(* Properties of the cache key *)

Members(params) == {params[i] : i \in 1..Len(params)}

\* the two requests are one request, their parameters inserted in orders
\* that may differ
SameUpToInsertionOrder ==
    /\ kreq[1].method = kreq[2].method
    /\ kreq[1].url = kreq[2].url
    /\ Members(kreq[1].params) = Members(kreq[2].params)

\* the two requests differ in method, in endpoint template, or in the value
\* of a parameter
DifferSomewhere ==
    \/ kreq[1].method # kreq[2].method
    \/ kreq[1].url # kreq[2].url
    \/ \E i \in 1..Len(kreq[1].params), j \in 1..Len(kreq[2].params) :
          /\ kreq[1].params[i].name = kreq[2].params[j].name
          /\ kreq[1].params[i].value # kreq[2].params[j].value

\* C9: the cache key does not depend on the insertion order of the
\* parameter object's keys
C9_KeyIgnoresInsertionOrder ==
    kkey # <<>> /\ SameUpToInsertionOrder => kkey[1] = kkey[2]

\* C10: requests that differ in method, endpoint template or the value of a
\* parameter (the page among them) have different cache keys
C10_KeysSeparateRequests ==
    kkey # <<>> /\ DifferSomewhere => kkey[1] # kkey[2]

\* two requests for the same endpoint and owner that differ in the page only
C10_Witness ==
    /\ kkey # <<>>
    /\ kreq[1].method = kreq[2].method /\ kreq[1].url = kreq[2].url
    /\ kreq[1].params = <<Param("owner", Str("1")), Param("page", Num(1))>>
    /\ kreq[2].params = <<Param("owner", Str("1")), Param("page", Num(2))>>
    /\ kkey[1] # kkey[2]

---------------------------------------------------------------------------
(* Properties of the list paginators *)

\* the items on the pages before `page`, and the number of items of a list
\* without a user
RowsBefore(rows, page) == SubSeq(rows, 1, Min((page - 1) * RowsPerPage, Len(rows)))
NullUsers(rows) == Cardinality({n \in 1..Len(rows) : rows[n].user = NoUser})

\* C22: when a page request of a list paginator fails, the paginator asks
\* for no further page and returns the items it collected from the pages
\* before; it does not throw.
C22_PageFailureReturnsCollected ==
    pg.failed # 0
    => /\ pg.pc = "returned"
       /\ pg.ret = FormatPage(pg.paginator, RowsBefore(pg.rows, pg.failed))
       /\ pg.requested[Len(pg.requested)] = pg.failed

\* C23: the pages of a resource are asked for in the order 1, 2, 3, ...:
\* the n-th request is for page n, at most one request is in flight, and a
\* new page is asked for only in a step that leaves no earlier request
\* unanswered.
C23_PagesInOrder ==
    /\ \A n \in 1..Len(pg.requested) : pg.requested[n] = n
    /\ Cardinality(pg.inflight) <= 1
    /\ pg.pc = "awaitPage" => pg.inflight = {Len(pg.requested)}
    /\ pg.pc # "awaitPage" => pg.inflight = {}

C23_Witness ==
    /\ pg.pc = "returned"
    /\ pg.failed = 0
    /\ pg.requested = <<1, 2, 3>>
    /\ Len(pg.rows) = MaxRows

\* C30: a reviews or comments paginator whose requests all succeeded
\* returns exactly the listed items that have a user, in the listed order:
\* one item fewer than listed for each item with a null user.
C30_NullUserItemsDropped ==
    /\ pg.pc = "returned"
    /\ pg.failed = 0
    /\ pg.paginator.fn # "fetchRepositories"
    => /\ pg.ret = SelectSeq(pg.rows, LAMBDA item : item.user # NoUser)
       /\ \A n \in 1..Len(pg.ret) : pg.ret[n].user # NoUser
       /\ Len(pg.ret) = Len(pg.rows) - NullUsers(pg.rows)

C30_Witness ==
    /\ pg.pc = "returned"
    /\ pg.failed = 0
    /\ pg.paginator = Paginator("part_000", "fetchPullRequestReviews")
    /\ Len(pg.rows) = 3
    /\ pg.rows[2].user = NoUser
    /\ pg.ret = <<pg.rows[1], pg.rows[3]>>

---------------------------------------------------------------------------
(* Properties of fetchPullRequestCommits *)

\* C25: every commit of a listed page ends up in the commits list, whether
\* its statistics request succeeded or failed: the step that follows a
\* statistics request appends the commit it was for.
C25_StatsFailureKeepsCommit ==
    [][fc.pc = "awaitStats" /\ fc' # fc
       => /\ Len(fc'.commits) = Len(fc.commits) + 1
          /\ fc'.commits[Len(fc'.commits)].sha = fc.data[fc.idx]]_vars

---------------------------------------------------------------------------
(* Properties of processPR *)

\* C24: when fetchPullRequestDetails fails, processPR fails and has called
\* none of the four fetchers; a fetcher is only ever called once the
\* details have arrived.
C24_DetailsFailureStartsNoFetcher ==
    /\ ppr.pc = "thrown" => ppr.issued = <<"details">>
    /\ ppr.pc = "awaitDetails" => ppr.issued = <<"details">>
    /\ Len(ppr.issued) > 1 => ppr.detailedPR = Details

C24_Witness == ppr.pc = "thrown" /\ ppr.done = <<>> /\ ppr.plan[1] = <<1>>

\* C26: the PullRequest processPR returns is the detail record with the
\* commits, reviews, comments and review requests its four fetchers
\* resolved with, each in its own field, in whatever order they settled.
C26_ResultCarriesFourResults ==
    ppr.pc = "returned"
    => /\ ppr.ret.number = PrNumber
       /\ ppr.ret.commits = ppr.plan[1]
       /\ ppr.ret.reviews = ppr.plan[2]
       /\ ppr.ret.comments = ppr.plan[3]
       /\ ppr.ret.review_requests = ppr.plan[4]

C26_Witness ==
    /\ ppr.pc = "returned"
    /\ ppr.done = <<4, 2, 3, 1>>
    /\ ppr.plan = <<<<1>>, <<>>, <<1>>, <<>>>>
    /\ ppr.ret.commits = <<1>>
    /\ ppr.ret.review_requests = <<>>

---------------------------------------------------------------------------
(* Properties of fetchPullRequestComments *)

\* the place of a comment type in the merged list
SourceRank(type) ==
    CASE type = "pr_line" -> 1 [] type = "issue" -> 2 [] type = "pr_review" -> 3

\* the number of items of a raw listing with a user, and of reviews with a
\* user whose body is outside `excluded`
Authored(raw) == Cardinality({n \in 1..Len(raw) : raw[n].user # NoUser})
AuthoredWithBody(raw, excluded) ==
    Cardinality({n \in 1..Len(raw) :
                    raw[n].user # NoUser /\ raw[n].body \notin excluded})

\* C27: in the returned list every pr_line comment comes before every issue
\* comment and every issue comment before every pr_review comment, and the
\* comments of one source are in the order of the API's listing (the ids of
\* a listing grow along it).
C27_SourceOrder ==
    cmt.pc = "returned"
    => \A i, j \in 1..Len(cmt.ret) :
          i < j
          => /\ SourceRank(cmt.ret[i].comment_type)
                    <= SourceRank(cmt.ret[j].comment_type)
             /\ cmt.ret[i].comment_type = cmt.ret[j].comment_type
                => cmt.ret[i].id < cmt.ret[j].id

C27_Witness ==
    /\ cmt.pc = "returned"
    /\ Len(cmt.ret) = 6
    /\ cmt.ret[2].comment_type = "pr_line"
    /\ cmt.ret[4].comment_type = "issue"
    /\ cmt.ret[6].comment_type = "pr_review"

\* C28 as stated: the returned list has as many comments as there are line
\* comments with a user, issue comments with a user, and reviews with a user
\* and a body that is neither null nor the empty string; a second call on
\* the same listings returns the same list.
C28_LengthIsSumOfNonEmpty ==
    cmt.pc = "returned"
    => /\ Len(cmt.ret) = Authored(cmt.line) + Authored(cmt.issue)
                         + AuthoredWithBody(cmt.reviews, {NullBody, ""})
       /\ cmt.runs = 2 => cmt.ret = cmt.first

\* C28, amended: the same, where the reviews counted are, in part_000, those
\* with a user and a body neither null nor empty, and in build_json.ts those
\* with a user and a body neither null, nor empty, nor blank.
C28_LengthIsSumOfFiltered ==
    cmt.pc = "returned"
    => /\ Len(cmt.ret) =
              Authored(cmt.line) + Authored(cmt.issue)
              + AuthoredWithBody(cmt.reviews,
                    IF cmt.file = "part_000" THEN {NullBody, ""}
                    ELSE {NullBody, "", " "})
       /\ cmt.runs = 2 => cmt.ret = cmt.first

C28_Witness ==
    /\ cmt.pc = "returned"
    /\ cmt.runs = 2
    /\ cmt.file = "build_json.ts"
    /\ Len(cmt.reviews) = 2
    /\ cmt.reviews[1].body = " " /\ cmt.reviews[1].user # NoUser
    /\ cmt.reviews[2].body = "ok" /\ cmt.reviews[2].user # NoUser
    /\ Authored(cmt.line) = 1 /\ Len(cmt.line) = 2
    /\ Authored(cmt.issue) = 2
    /\ Len(cmt.ret) = 4

\* C29: no two comments of the returned list that come from different
\* sources have the same id.
C29_NoCrossSourceDuplicateIds ==
    cmt.pc = "returned"
    => \A i, j \in 1..Len(cmt.ret) :
          cmt.ret[i].comment_type # cmt.ret[j].comment_type
          => cmt.ret[i].id # cmt.ret[j].id

---------------------------------------------------------------------------
(* Properties of main *)

\* whether the first page of the PRs of repository repo is cached and empty
NoPullRequests(repo) ==
    cache[KeyOf(RepoPullsRequest(repo, 1))] = CachedFile(Arr(<<>>))

\* C31: when the output file is written, every repository that main went
\* through and that has no PR is among the repositories recorded in it.
C31_EmptyRepositoryRecorded ==
    run.pc = "done"
    => \A n \in 1..Len(run.repositories) :
          NoPullRequests(run.repositories[n])
          => \E m \in 1..Len(run.recorded) :
                run.recorded[m] = run.repositories[n]

---------------------------------------------------------------------------
(* Properties of the snapshot and its summary *)

\* the PRs of the repositories mapping, in one list
RECURSIVE RecordedPRs(_)
RecordedPRs(repositories) ==
    IF Len(repositories) = 0 THEN <<>>
    ELSE repositories[1].pull_requests \o RecordedPRs(Tail(repositories))

\* the sum of what(pr) over a list of PRs
RECURSIVE SumUpTo(_, _)
SumUpTo(numbers, n) ==
    IF n = 0 THEN 0 ELSE SumUpTo(numbers, n - 1) + numbers[n]
Total(prs, what(_)) ==
    SumUpTo([n \in 1..Len(prs) |-> what(prs[n])], Len(prs))

\* the number of PRs of a list that satisfy a condition
HowMany(prs, is(_)) == Cardinality({n \in 1..Len(prs) : is(prs[n])})

\* C34: in the written snapshot every summary counter is the fold over the
\* PRs of the repositories mapping: total_pull_requests is their number,
\* total_commits, total_reviews, total_comments and total_review_requests
\* are the sums of the lengths of their lists, and total_additions,
\* total_deletions and total_changed_files the sums of their counts
C34_SummaryIsFoldOverRecorded ==
    snap.written =>
        LET prs == RecordedPRs(snap.repositories) IN
        /\ snap.summary.total_pull_requests = Len(prs)
        /\ snap.summary.total_commits = Total(prs, LAMBDA pr : Len(pr.commits))
        /\ snap.summary.total_reviews = Total(prs, LAMBDA pr : Len(pr.reviews))
        /\ snap.summary.total_comments = Total(prs, LAMBDA pr : Len(pr.comments))
        /\ snap.summary.total_review_requests =
               Total(prs, LAMBDA pr : Len(pr.review_requests))
        /\ snap.summary.total_additions = Total(prs, LAMBDA pr : pr.additions)
        /\ snap.summary.total_deletions = Total(prs, LAMBDA pr : pr.deletions)
        /\ snap.summary.total_changed_files =
               Total(prs, LAMBDA pr : pr.changed_files)

\* one repository with two PRs, one merged and one open, each with one
\* commit, one review and no comment, written with the counters 1, 2,
\* merged 1, open 1, commits 2, reviews 2, comments 0
C34_Witness ==
    /\ snap.written
    /\ Len(snap.fetched) = 1 /\ Len(snap.repositories) = 1
    /\ LET prs == snap.repositories[1].pull_requests IN
       /\ Len(prs) = 2
       /\ prs[1].merged_at = MergedAt /\ prs[2].state = "open"
       /\ \A n \in 1..2 : /\ Len(prs[n].commits) = 1
                          /\ Len(prs[n].reviews) = 1
                          /\ Len(prs[n].comments) = 0
    /\ snap.summary.total_repositories = 1
    /\ snap.summary.total_pull_requests = 2
    /\ snap.summary.merged_pull_requests = 1
    /\ snap.summary.open_pull_requests = 1
    /\ snap.summary.total_commits = 2
    /\ snap.summary.total_reviews = 2
    /\ snap.summary.total_comments = 0

\* the entries of the repositories mapping under the name of the r-th
\* repository
RecordedUnder(r) ==
    {m \in 1..Len(snap.repositories) : snap.repositories[m].name = RepoName(r)}

\* C36: a PR whose payload has a null user is recorded with the user login
\* "unknown" and the user id 0: every PR of a processed repository is in
\* the repositories mapping, at its place, those of null user included
C36_NullUserDefaultedAndKept ==
    \A r \in 1..Len(snap.fetched) :
        (snap.r > r /\ Len(snap.fetched[r]) > 0) =>
            /\ Cardinality(RecordedUnder(r)) = 1
            /\ \A m \in RecordedUnder(r) :
                 LET prs == snap.repositories[m].pull_requests IN
                 /\ Len(prs) = Len(snap.fetched[r])
                 /\ \A n \in 1..Len(prs) :
                      /\ prs[n].number = n
                      /\ snap.fetched[r][n].user.isNull =>
                             prs[n].user = [login |-> "unknown", id |-> 0]
                      /\ ~snap.fetched[r][n].user.isNull =>
                             prs[n].user = [login |-> snap.fetched[r][n].user.login,
                                            id |-> snap.fetched[r][n].user.id]

\* a snapshot is written that holds a PR of null user next to one of a
\* known user
C36_Witness ==
    /\ snap.written
    /\ Len(snap.repositories) >= 1
    /\ LET prs == snap.repositories[1].pull_requests IN
       /\ Len(prs) = 2
       /\ snap.fetched[1][1].user.isNull
       /\ prs[1].user.login = "unknown" /\ prs[1].user.id = 0
       /\ prs[2].user.login = "octocat"

\* C37: the state counters partition the recorded PRs: merged_pull_requests
\* counts those with a merge timestamp, closed_pull_requests those closed
\* without one, open_pull_requests those open; the three add up to
\* total_pull_requests and no PR is counted by two of them
C37_StateCountersPartition ==
    snap.written =>
        LET prs == RecordedPRs(snap.repositories) IN
        /\ snap.summary.merged_pull_requests =
               HowMany(prs, LAMBDA pr : pr.merged_at # NotMerged)
        /\ snap.summary.closed_pull_requests =
               HowMany(prs, LAMBDA pr : pr.state = "closed"
                                           /\ pr.merged_at = NotMerged)
        /\ snap.summary.open_pull_requests =
               HowMany(prs, LAMBDA pr : pr.state = "open")
        /\ snap.summary.open_pull_requests + snap.summary.closed_pull_requests
               + snap.summary.merged_pull_requests
             = snap.summary.total_pull_requests
        /\ \A n \in 1..Len(prs) :
             HowMany(<<prs[n]>>, IsOpen) + HowMany(<<prs[n]>>, IsClosed)
                 + HowMany(<<prs[n]>>, IsMerged) = 1

\* a snapshot is written with a merged PR, a PR closed without merge and
\* an open PR, each counted once
C37_Witness ==
    /\ snap.written
    /\ snap.summary.total_pull_requests = 3
    /\ snap.summary.merged_pull_requests = 1
    /\ snap.summary.closed_pull_requests = 1
    /\ snap.summary.open_pull_requests = 1


---------------------------------------------------------------------------
(* Properties of the startup checks *)

\* the first argument is a decimal number: digits after an optional sign
IsNumeric(word) ==
    LET digits == IF Len(word) > 0 /\ Head(word) \in {"-", "+"}
                  THEN Tail(word) ELSE word
    IN  Len(digits) > 0 /\ \A n \in 1..Len(digits) : digits[n] \in DigitChars

\* the startup is invalid: no days argument, one that is no number or no
\* positive number, or no credential or organization
InvalidStartup ==
    \/ Len(boot.argv) = 0
    \/ Len(boot.argv) > 0 /\ ~IsNumeric(boot.argv[1])
    \/ Len(boot.argv) > 0 /\ IsNumeric(boot.argv[1])
           /\ ParseInt(boot.argv[1]).value <= 0
    \/ ~boot.token
    \/ ~boot.org

\* C35: with a days argument that is missing, not numeric or not positive,
\* or without the credential or the organization, the process goes from
\* the checks to the exit with code 1, and no API request and no cache
\* read is ever made
C35_InvalidStartupExitsBeforeRequests ==
    InvalidStartup =>
        /\ boot.requests = 0 /\ boot.cacheReads = 0
        /\ boot.pc \notin {"fetch", "running"}
        /\ boot.pc = "exited" => boot.exitCode = 1


---------------------------------------------------------------------------
(* Properties of processPR over failing requests *)

IsPrefix(short, long) ==
    Len(short) <= Len(long) /\ short = SubSeq(long, 1, Len(short))

\* C38: processPR fails if and only if the details fetch fails: it is
\* thrown only with no fetcher called, and once the details have arrived
\* it is never thrown; a terminal request failure of a fetcher leaves a
\* prefix of its items (empty when the first request failed) in the PR
\* processPR returns
C38_FailsOnlyWithDetails ==
    /\ ppr.pc = "thrown" => (ppr.issued = <<"details">> /\ ppr.done = <<>>)
    /\ Len(ppr.issued) > 1 => ppr.pc \in {"awaitAll", "returned"}
    /\ ppr.pc = "returned" =>
          /\ Len(ppr.done) = Len(Fetchers)
          /\ IsPrefix(ppr.ret.commits, ppr.plan[1])
          /\ IsPrefix(ppr.ret.reviews, ppr.plan[2])
          /\ IsPrefix(ppr.ret.comments, ppr.plan[3])
          /\ IsPrefix(ppr.ret.review_requests, ppr.plan[4])
          /\ ppr.failsAt[1] = 1 => ppr.ret.commits = <<>>
          /\ ppr.failsAt[4] = 1 => ppr.ret.review_requests = <<>>

\* processPR returned although a request of each of the four fetchers
\* failed: the commits and the review requests are empty, the reviews cut
\* after the first page
C38_Witness ==
    /\ ppr.pc = "returned"
    /\ ppr.failsAt = <<1, 2, 1, 1>>
    /\ ppr.ret.commits = <<>>
    /\ ppr.ret.reviews = <<1>>
    /\ ppr.ret.comments = <<>>
    /\ ppr.ret.review_requests = <<>>


---------------------------------------------------------------------------
(* Properties of the two reviews fetches of a PR *)

\* C39: once both fetches have returned, every pr_review comment of the
\* PullRequest has the id of a review of its reviews list, whatever the
\* interleaving of the two fetches and whichever of their requests failed
C39_ReviewCommentsAmongReviews ==
    (rv.call[1].pc = "returned" /\ rv.call[2].pc = "returned") =>
        \A n \in 1..Len(ReviewCommentsOfPR) :
            \E m \in 1..Len(ReviewsOfPR) :
                ReviewsOfPR[m].id = ReviewCommentsOfPR[n].id


---------------------------------------------------------------------------
(* Properties of the retry counter of cachedRequest *)

IsRetried(e) == IsPrimaryRateLimit(e) \/ IsQuotaExhaustion(e)
Settled1 == calls[1].pc \in {"returned", "thrown"}

\* C40: the rate-limit path and the quota path advance one retry counter:
\* whatever the mix of the two errors, the live attempts of a call are one
\* more than its retries and at most 4, the 4th attempt failing with either
\* error ends the call with the 'retries exhausted' error, and a call that
\* was made settles, the live calls and the timers it awaits being settled
C40_SharedRetryCounter ==
    /\ [](/\ calls[1].live <= MaxRetries + 1
          /\ calls[1].retryCount <= MaxRetries
          /\ calls[1].pc = "live" =>
                 (/\ calls[1].live = calls[1].retryCount + 1
                  /\ Len(calls[1].waits) = calls[1].retryCount)
          /\ calls[1].pc = "backoff" =>
                 (/\ calls[1].live = calls[1].retryCount + 1
                  /\ Len(calls[1].waits) = calls[1].retryCount + 1)
          /\ ( /\ calls[1].live = MaxRetries + 1 /\ calls[1].pc # "live"
               /\ calls[1].resp.kind = "error"
               /\ IsRetried(calls[1].resp.error) )
             => /\ calls[1].pc = "thrown"
                /\ calls[1].error =
                       RetriesExhaustedError(calls[1].resp.error))
    /\ (calls[1].pc # "idle") ~> Settled1

\* a call ended by the 4th failure, after two rate-limit waits and a quota
\* wait between them
C40_Witness ==
    /\ calls[1].pc = "thrown" /\ calls[1].live = 4
    /\ Len(calls[1].waits) = 3
    /\ calls[1].waits[1].branch = "rate"
    /\ calls[1].waits[2].branch = "quota"
    /\ calls[1].waits[3].branch = "rate"
    /\ IsQuotaExhaustion(calls[1].resp.error)
    /\ Includes(calls[1].error.message, "Limite de tentativas excedido")

====
